---- MODULE Spec2Model ----
(***************************************************************************)
(* A model of the academic abstract collector (cs_abstract_collector.py).  *)
(*                                                                         *)
(* The collector asks a metadata service for an author's papers, keeps the *)
(* authors that have one abstract-bearing paper for every year 2020..2024  *)
(* (check_author_continuity_with_abstracts), numbers them after the        *)
(* authors already complete in the output directory (collect_abstracts)    *)
(* and writes one file per author and year (save_abstracts_to_files).      *)
(***************************************************************************)
EXTENDS Integers, Sequences, FiniteSets, TLC

VARIABLES
    author,     \* the candidate dict handed to the qualifier
    papers,     \* what get_author_papers returned for that candidate
    verdict,    \* what the qualifier returned and printed, once it has run
    params,     \* the arguments of run(), and the debug authors file
    pc,         \* where run() is
    loc,        \* the local variables of run() and of the calls it makes
    disk,       \* the abstract files of the output directory
    disk0,      \* the abstract files the run found when it started
    saved,      \* what save_abstracts_to_files did
    cache,      \* the cache directory
    gets,       \* the HTTP GETs issued so far
    call,       \* the last call of the service client and what it met
    history,    \* the runs on this output directory so far
    progress,   \* progress.json
    report      \* collection_report.txt

qvars == <<author, papers, verdict>>
rvars == <<params, pc, loc, disk, disk0, saved, cache, gets, call, history,
          progress, report>>
vars == <<author, papers, verdict, params, pc, loc, disk, disk0, saved, cache,
          gets, call, history, progress, report>>

(***************************************************************************)
(* Data model                                                              *)
(***************************************************************************)

\* required_years = list(range(2020, 2025))
FirstYear == 2020
LastYear == 2024
RequiredYearSet == FirstYear..LastYear
RequiredYears == [i \in 1..(LastYear - FirstYear + 1) |-> FirstYear + i - 1]

\* "if len(selected_papers) == 5"
RequiredCount == 5

\* A JSON year is an integer or a string; the two never compare equal in
\* Python (2020 != "2020"), so a year value carries its type.
IntYear(n) == <<"int", n>>
StrYear(s) == <<"str", s>>
NoneYear == <<"None", 0>>
isinstance_str(y) == y[1] = "str"

\* str(n) for the integers the model uses.
str(n) ==
    CASE n = 2020 -> "2020"
      [] n = 2021 -> "2021"
      [] n = 2022 -> "2022"
      [] n = 2023 -> "2023"
      [] n = 2024 -> "2024"
      [] OTHER -> "0"

\* int(s): <<n>> for the decimal string of n; <<>> when int() raises
\* ValueError (a string that is no numeral).
int(s) ==
    IF \E n \in RequiredYearSet : str(n) = s
    THEN <<CHOOSE n \in RequiredYearSet : str(n) = s>>
    ELSE <<>>

\* int(paper_year) if isinstance(paper_year, str) else paper_year: <<n>>,
\* or <<>> when the result is no integer (ValueError, or the year is None).
year_int(y) ==
    IF isinstance_str(y) THEN int(y[2])
    ELSE IF y = NoneYear THEN <<>>
    ELSE <<y[2]>>

\* str(year) as the file name uses it
year_str(y) == IF isinstance_str(y) THEN y[2] ELSE str(y[2])

\* "not year"
not_year(y) == y = NoneYear \/ y = IntYear(0) \/ y = StrYear("")

(***************************************************************************)
(* Text. A string of the model is a TLA+ string; chars gives its           *)
(* characters, on which lower(), "in" and split() work as Python's do.     *)
(***************************************************************************)

chars(s) ==
    CASE s = "" -> <<>>
      [] s = " " -> <<" ">>
      [] s = "AI Safety" -> <<"A", "I", " ", "S", "a", "f", "e", "t", "y">>
      [] s = "Pen Study" -> <<"P", "e", "n", " ", "S", "t", "u", "d", "y">>
      [] s = "abstract text" -> <<"a", "b", "s", "t", "r", "a", "c", "t", " ", "t", "e", "x", "t">>
      [] s = "ICML" -> <<"I", "C", "M", "L">>
      [] s = "CHI" -> <<"C", "H", "I">>
      [] s = "arXiv" -> <<"a", "r", "X", "i", "v">>
      [] s = "NeurIPS" -> <<"N", "e", "u", "r", "I", "P", "S">>
      [] s = "KDD" -> <<"K", "D", "D">>
      [] s = "machine learning" -> <<"m", "a", "c", "h", "i", "n", "e", " ", "l", "e", "a", "r", "n", "i", "n", "g">>
      [] s = "system" -> <<"s", "y", "s", "t", "e", "m">>
      [] s = "ai" -> <<"a", "i">>
      [] s = "ml" -> <<"m", "l">>
      [] s = "nlp" -> <<"n", "l", "p">>
      [] s = "data" -> <<"d", "a", "t", "a">>
      [] s = "Andrew Ng" -> <<"A", "n", "d", "r", "e", "w", " ", "N", "g">>
      [] s = "Yann LeCun" -> <<"Y", "a", "n", "n", " ", "L", "e", "C", "u", "n">>
      [] s = "Ng Lab" -> <<"N", "g", " ", "L", "a", "b">>
      [] s = "Madonna" -> <<"M", "a", "d", "o", "n", "n", "a">>
      [] s = "Fei-Fei Li" -> <<"F", "e", "i", "-", "F", "e", "i", " ", "L", "i">>
      [] s = "Student Ng" -> <<"S", "t", "u", "d", "e", "n", "t", " ", "N", "g">>
      [] s = " Madonna " -> <<" ", "M", "a", "d", "o", "n", "n", "a", " ">>
      [] s = "Maximiliana Konstantinopolskaya Alexandrovna Parks" ->
            <<"M", "a", "x", "i", "m", "i", "l", "i", "a", "n", "a", " ", "K", "o", "n", "s", "t", "a", "n", "t", "i", "n", "o", "p", "o">>
            \o <<"l", "s", "k", "a", "y", "a", " ", "A", "l", "e", "x", "a", "n", "d", "r", "o", "v", "n", "a", " ", "P", "a", "r", "k", "s">>
      [] s = "Maximiliana Konstantinopolskaya Alexandrovna Parkss" ->
            <<"M", "a", "x", "i", "m", "i", "l", "i", "a", "n", "a", " ", "K", "o", "n", "s", "t", "a", "n", "t", "i", "n", "o", "p", "o">>
            \o <<"l", "s", "k", "a", "y", "a", " ", "A", "l", "e", "x", "a", "n", "d", "r", "o", "v", "n", "a", " ", "P", "a", "r", "k", "s">>
            \o <<"s">>
      [] s = "department" -> <<"d", "e", "p", "a", "r", "t", "m", "e", "n", "t">>
      [] s = "university" -> <<"u", "n", "i", "v", "e", "r", "s", "i", "t", "y">>
      [] s = "lab" -> <<"l", "a", "b">>
      [] s = "student" -> <<"s", "t", "u", "d", "e", "n", "t">>
      [] s = "full" -> <<"f", "u", "l", "l">>

UpperCase == <<"A", "C", "D", "F", "H", "I", "K", "L", "M", "N", "P", "S", "X", "Y">>
LowerCase == <<"a", "c", "d", "f", "h", "i", "k", "l", "m", "n", "p", "s", "x", "y">>

lower_char(c) ==
    IF \E i \in DOMAIN UpperCase : UpperCase[i] = c
    THEN LowerCase[CHOOSE i \in DOMAIN UpperCase : UpperCase[i] = c]
    ELSE c

\* text.lower()
lower(cs) == [i \in DOMAIN cs |-> lower_char(cs[i])]

\* kw in text
contains(cs, kw) ==
    \E i \in 0..(Len(cs) - Len(kw)) : SubSeq(cs, i + 1, i + Len(kw)) = kw

NoAbstract == ""
SomeAbstract == "abstract text"
Abstracts == {NoAbstract, SomeAbstract}

\* The candidate the service reports; paper dicts name it after selection.
CandidateId == "a1"
CandidateName == "Andrew Ng"
NoName == ""

FieldTitle == "AI Safety"
OtherTitle == "Pen Study"
TopFieldVenue == "ICML"
TopOtherVenue == "CHI"
OtherVenue == "arXiv"

\* A paper dict as the API returns it (fields of line 554), with the two
\* keys the collector adds later: author_index 0 and author_name "" stand
\* for an absent key.
RawPaper(id, t, v, as, y, c, a) ==
    [paperId |-> id, title |-> t, venue |-> v, authors |-> as, year |-> y,
     citationCount |-> c, abstract |-> a,
     author_name |-> NoName, author_index |-> 0]

\* A paper of the candidate that passes every filter of get_author_papers.
Paper(id, y, c, a) ==
    RawPaper(id, FieldTitle, TopFieldVenue, <<CandidateId>>, y, c, a)

(***************************************************************************)
(* The filter chain                                                        *)
(***************************************************************************)

\* self.field_keywords and self.top_conferences for field CS: the entries of
\* the two tables that occur in the texts of the model, and some that do not.
field_keywords == <<"machine learning", "system", "ai", "ml", "nlp", "data">>
top_conferences == <<"NeurIPS", "ICML", "CHI", "KDD">>

\* The texts the papers of the model carry.
Titles == {FieldTitle, OtherTitle}
Venues == {TopFieldVenue, TopOtherVenue, OtherVenue}

\* f"{title} {abstract} {venue}".lower() holds a field keyword.
field_text ==
    [t \in Titles, a \in Abstracts, v \in Venues |->
        LET text_to_check ==
                lower(chars(t) \o chars(" ") \o chars(a) \o chars(" ") \o chars(v))
        IN \E k \in DOMAIN field_keywords :
              contains(text_to_check, chars(field_keywords[k]))]

is_field_paper(paper) == field_text[paper.title, paper.abstract, paper.venue]

\* venue.lower() holds the lower-cased name of a top conference.
top_venue ==
    [v \in Venues |->
        LET venue_lower == lower(chars(v))
        IN \E k \in DOMAIN top_conferences :
              contains(venue_lower, lower(chars(top_conferences[k])))]

is_top_conference_paper(paper) == top_venue[paper.venue]

\* The mutant of is_author_in_paper: only the first author is looked at.
is_first_author(paper, author_id) ==
    paper.authors # <<>> /\ paper.authors[1] = author_id

is_author_in_paper(paper, author_id) ==
    \E k \in DOMAIN paper.authors : paper.authors[k] = author_id

\* The year filter of get_author_papers: a year that is None, or a string
\* that is no numeral, drops the paper.
year_in(paper, years) ==
    LET n == year_int(paper.year)
    IN n # <<>> /\ \E k \in DOMAIN years : years[k] = n[1]

(***************************************************************************)
(* The cache store and get_author_papers                                   *)
(***************************************************************************)

\* Python values that json.dump accepts, by their outermost constructor: a
\* list, a tuple, a dict (its items as <<key, value>>, the key an int or a
\* str) or None. What they hold is JSON-native and is written and read back
\* as it is.
List(xs) == <<"list", xs>>
Tuple(xs) == <<"tuple", xs>>
Dict(kvs) == <<"dict", kvs>>
None == <<"None", <<>>>>
items(v) == v[2]

\* A dict key as JSON writes it: an int key becomes its decimal string.
key_text(k) == IF k[1] = "int" THEN StrYear(str(k[2])) ELSE k

\* json.dump(data, f): the text of the file, by its outermost JSON form.
json_dump(data) ==
    CASE data[1] = "list" -> <<"array", data[2]>>
      [] data[1] = "tuple" -> <<"array", data[2]>>
      [] data[1] = "dict" ->
            <<"object", [i \in DOMAIN data[2] |->
                            <<key_text(data[2][i][1]), data[2][i][2]>>]>>
      [] OTHER -> <<"null", <<>>>>

\* json.load(f): an array is read as a list, an object as a dict with str keys.
json_load(text) ==
    CASE text[1] = "array" -> List(text[2])
      [] text[1] = "object" -> Dict(text[2])
      [] OTHER -> None

\* A cache directory: a function from cache file names to file texts.
_get_cache_file(cache_type, identifier) == <<cache_type, identifier>>

\* _load_from_cache gives <<value>> when the file exists and <<>> when the
\* function returns None for want of a file.
_load_from_cache(c, cache_type, identifier) ==
    IF _get_cache_file(cache_type, identifier) \in DOMAIN c
    THEN <<json_load(c[_get_cache_file(cache_type, identifier)])>>
    ELSE <<>>

\* The mutant of _save_to_cache: the file is written only if it is there.
save_existing_only(c, cache_type, identifier, data, opened) ==
    IF _get_cache_file(cache_type, identifier) \in DOMAIN c
    THEN [f \in DOMAIN c |->
            IF f = _get_cache_file(cache_type, identifier)
            THEN json_dump(data) ELSE c[f]]
    ELSE c

\* _save_to_cache; opened tells whether open(cache_file, 'w') succeeded. A
\* failure is printed and swallowed, the directory stays as it was.
_save_to_cache(c, cache_type, identifier, data, opened) ==
    IF opened
    THEN [f \in DOMAIN c \cup {_get_cache_file(cache_type, identifier)} |->
            IF f = _get_cache_file(cache_type, identifier)
            THEN json_dump(data) ELSE c[f]]
    ELSE c

\* "if cached_result:" is true of a value that is neither None nor empty.
truthy(loaded) == loaded # <<>> /\ items(loaded[1]) # <<>>

\* sorted(years)
RECURSIVE insert_asc(_, _)
insert_asc(n, l) ==
    IF l = <<>> THEN <<n>>
    ELSE IF n < Head(l) THEN <<n>> \o l
    ELSE <<Head(l)>> \o insert_asc(n, Tail(l))

RECURSIVE sorted_years(_)
sorted_years(l) == IF l = <<>> THEN <<>> ELSE insert_asc(Head(l), sorted_years(Tail(l)))

\* f"{author_id}_{years_str}": the id and the sorted years that are joined.
_get_paper_cache_key(author_id, years) == <<author_id, sorted_years(years)>>

\* author_name.replace(' ', '_').replace('.', '').lower()
replace_space(cs) == [i \in DOMAIN cs |-> IF cs[i] = " " THEN "_" ELSE cs[i]]
remove_dots(cs) == SelectSeq(cs, LAMBDA c : c # ".")
_get_author_cache_key(author_name) ==
    lower(remove_dots(replace_space(chars(author_name))))

\* What a call of the client met and did: the cache file of its key, whether
\* os.path.exists held for it and what it then contained, whether a GET was
\* issued, and the list the call worked with.
\* Of the exchange with the service it keeps the answer (resp, which a call
\* that issues no GET never sees) and what the client did in order: the
\* rate-limit delay, the GET, the cooldown after a 429.
NoResponse == [kind |-> "none", status_code |-> 0, data |-> <<>>]

NoCall ==
    [file |-> <<"none", <<>>>>, existed |-> FALSE, payload |-> <<>>,
     fetched |-> FALSE, returned |-> <<>>, issued |-> 0, events |-> <<>>,
     resp |-> NoResponse]

Met(c, cache_type, identifier, issued, returned, events, resp) ==
    LET file == _get_cache_file(cache_type, identifier)
    IN [file |-> file, existed |-> file \in DOMAIN c,
        payload |-> IF file \in DOMAIN c THEN items(json_load(c[file]))
                    ELSE <<>>,
        fetched |-> issued # <<>>, returned |-> returned,
        issued |-> Len(issued), events |-> events,
        resp |-> IF issued # <<>> THEN resp ELSE NoResponse]

\* The mutant of cache_hit: any cache file that exists is a hit.
cache_hit_if_present(loaded) == loaded # <<>>

cache_hit(loaded) == truthy(loaded)

Response200(data) == [kind |-> "response", status_code |-> 200, data |-> data]
ResponseStatus(code) == [kind |-> "response", status_code |-> code, data |-> <<>>]
RequestException == [kind |-> "exception", status_code |-> 0, data |-> <<>>]
\* A 200 whose body is no JSON: response.json() raises inside the try.
MalformedBody == [kind |-> "malformed", status_code |-> 200, data |-> <<>>]

\* The mutant of next_item: after a 429 the same item is asked for again.
same_item_after_429(i, resp) ==
    IF resp.kind = "response" /\ resp.status_code = 429 THEN i ELSE i + 1

\* The loops over the known scholars, the search queries and the years go on
\* with the next item whatever the answer was: the 429 branch is
\* "time.sleep(5); continue".
next_item(i, resp) == i + 1

\* The mutant of request: the GET goes out with no delay before it.
request_without_delay(resp) ==
    <<"get">> \o (IF resp.kind = "response" /\ resp.status_code = 429
                  THEN <<"sleep">> ELSE <<>>)

\* self.rate_limit_delay(); self.session.get(url, params=params), and the
\* time.sleep(5) of the 429 branch: what one request does, in order.
request(resp) ==
    <<"rate_limit_delay", "get">>
       \o (IF resp.kind = "response" /\ resp.status_code = 429
           THEN <<"sleep">> ELSE <<>>)

\* get_author_papers with the service answering resp if it is asked:
\* the papers returned, the cache directory afterwards, the GETs issued, and
\* the lists the four filters of a 200 made one after the other.
get_author_papers(c, author_id, years, resp) ==
    LET cache_key == _get_paper_cache_key(author_id, years)
        cached_result == _load_from_cache(c, "author_papers", cache_key)
    IN IF cache_hit(cached_result)
       THEN [papers |-> items(cached_result[1]), cache |-> c, gets |-> <<>>,
             events |-> <<>>, stages |-> <<>>]
       ELSE LET get == <<[url |-> "author/papers", key |-> cache_key]>>
            IN IF resp.kind # "response"
               THEN [papers |-> <<>>, cache |-> c, gets |-> get,
                     events |-> request(resp), stages |-> <<>>]
               ELSE IF resp.status_code = 200
               THEN LET year_filtered ==
                            SelectSeq(resp.data, LAMBDA p : year_in(p, years))
                        field_filtered ==
                            SelectSeq(year_filtered, is_field_paper)
                        top_conf_filtered ==
                            SelectSeq(field_filtered, is_top_conference_paper)
                        author_papers ==
                            SelectSeq(top_conf_filtered,
                                      LAMBDA p : is_author_in_paper(p, author_id))
                    IN [papers |-> author_papers,
                        cache |-> _save_to_cache(c, "author_papers", cache_key,
                                                 List(author_papers), TRUE),
                        gets |-> get, events |-> request(resp),
                        stages |-> <<year_filtered, field_filtered,
                                     top_conf_filtered, author_papers>>]
               ELSE [papers |-> <<>>, cache |-> c, gets |-> get,
                     events |-> request(resp), stages |-> <<>>]

(***************************************************************************)
(* search_field_authors, strategy 1: the known scholars                    *)
(***************************************************************************)

\* The institution keywords that occur in the names of the model; the others
\* of the list occur in none of them.
institution_keywords == {"department", "university", "lab", "student", "full"}

\* len(name.strip().split()): the maximal runs of characters that are no space.
name_parts(cs) ==
    Cardinality({i \in DOMAIN cs :
                    cs[i] # " " /\ (i = 1 \/ cs[i - 1] = " ")})

\* The mutant of is_real_author: a name of any length is taken.
is_real_author_any_length(name) ==
    /\ name # ""
    /\ \A kw \in institution_keywords : ~contains(lower(chars(name)), chars(kw))
    /\ name_parts(chars(name)) >= 2

is_real_author(name) ==
    /\ name # ""
    /\ \A kw \in institution_keywords : ~contains(lower(chars(name)), chars(kw))
    /\ name_parts(chars(name)) >= 2
    /\ Len(chars(name)) <= 50

has_author(authors, author_id) ==
    \E k \in DOMAIN authors : authors[k].authorId = author_id

\* for author in cached_result: append the ones authors does not hold yet.
RECURSIVE merge_cached(_, _)
merge_cached(authors, cached) ==
    IF cached = <<>> THEN authors
    ELSE merge_cached(
            IF has_author(authors, Head(cached).authorId) THEN authors
            ELSE Append(authors, Head(cached)),
            Tail(cached))

\* for author in author_results: the real, identified authors that are new.
RECURSIVE take_valid(_, _, _)
take_valid(authors, valid_authors, author_results) ==
    IF author_results = <<>>
    THEN [authors |-> authors, valid_authors |-> valid_authors]
    ELSE LET a == Head(author_results)
         IN IF /\ is_real_author(a.name)
               /\ a.authorId # ""
               /\ ~has_author(authors, a.authorId)
            THEN take_valid(Append(authors, a), Append(valid_authors, a),
                            Tail(author_results))
            ELSE take_valid(authors, valid_authors, Tail(author_results))

\* One round of the loop over known_scholars, the service answering resp if
\* it is asked: authors and the cache directory afterwards, the GETs issued,
\* and the list the round added from.
known_scholar(c, authors, author_name, resp) ==
    LET cache_key == _get_author_cache_key(author_name)
        cached_result == _load_from_cache(c, "author_search", cache_key)
    IN IF cache_hit(cached_result)
       THEN [authors |-> merge_cached(authors, items(cached_result[1])),
             cache |-> c, gets |-> <<>>, used |-> items(cached_result[1]),
             events |-> <<>>]
       ELSE LET get == <<[url |-> "author/search", key |-> cache_key]>>
            IN IF resp.kind = "response" /\ resp.status_code = 200
               THEN LET t == take_valid(authors, <<>>, resp.data)
                    IN [authors |-> t.authors,
                        cache |-> IF t.valid_authors # <<>>
                                  THEN _save_to_cache(c, "author_search",
                                                      cache_key,
                                                      List(t.valid_authors),
                                                      TRUE)
                                  ELSE c,
                        gets |-> get, used |-> t.valid_authors,
                        events |-> request(resp)]
               ELSE [authors |-> authors, cache |-> c, gets |-> get,
                     used |-> <<>>, events |-> request(resp)]

(***************************************************************************)
(* search_field_authors, strategies 2 and 3, and the final list            *)
(***************************************************************************)

\* An author dict as the search hands it on ('_validated_papers' not set).
FoundAuthor(id, name) ==
    [authorId |-> id, name |-> name, has_validated |-> FALSE,
     validated_papers |-> <<>>]

\* for author in authors_list[:n]: the identified, real authors that authors
\* does not hold yet are appended as {'authorId', 'name'}.
RECURSIVE add_authors(_, _)
add_authors(authors, authors_list) ==
    IF authors_list = <<>> THEN authors
    ELSE LET a == Head(authors_list)
         IN add_authors(
               IF /\ a.authorId # ""
                  /\ is_real_author(a.name)
                  /\ ~has_author(authors, a.authorId)
               THEN Append(authors, FoundAuthor(a.authorId, a.name))
               ELSE authors,
               Tail(authors_list))

first_n(authors_list, n) ==
    SubSeq(authors_list, 1, IF Len(authors_list) < n THEN Len(authors_list) ELSE n)

\* for paper in papers: the first n authors of each paper are looked at.
RECURSIVE extract_authors(_, _, _)
extract_authors(authors, found_papers, n) ==
    IF found_papers = <<>> THEN authors
    ELSE extract_authors(add_authors(authors, first_n(Head(found_papers).authors, n)),
                         Tail(found_papers), n)

\* The mutant of paper_search: a 429 is answered by asking once more.
paper_search_again(authors, key, n, resp) ==
    [authors |-> IF resp.kind = "response" /\ resp.status_code = 200
                 THEN extract_authors(authors, resp.data, n)
                 ELSE authors,
     gets |-> IF resp.kind = "response" /\ resp.status_code = 429
              THEN <<[url |-> "paper/search", key |-> key],
                     [url |-> "paper/search", key |-> key]>>
              ELSE <<[url |-> "paper/search", key |-> key]>>,
     events |-> request(resp)]

\* One round of the loop over the search queries (the first two authors of
\* each paper), and one round of the loop over the years of strategy 3 (the
\* first author): authors afterwards, the GET issued, what the client did.
paper_search(authors, key, n, resp) ==
    [authors |-> IF resp.kind = "response" /\ resp.status_code = 200
                 THEN extract_authors(authors, resp.data, n)
                 ELSE authors,
     gets |-> <<[url |-> "paper/search", key |-> key]>>,
     events |-> request(resp)]

\* The authors a round appended to the list.
appended(authors, after) == SubSeq(after, Len(authors) + 1, Len(after))

\* The mutant of unique_authors: the list comes back last author first.
RECURSIVE unique_last_first(_, _)
unique_last_first(authors, acc) ==
    IF authors = <<>> THEN acc
    ELSE unique_last_first(Tail(authors),
            IF Head(authors).authorId # "" /\ ~has_author(acc, Head(authors).authorId)
            THEN <<Head(authors)>> \o acc ELSE acc)

\* unique_authors: a dict keyed by author id, filled in the order of authors;
\* list(unique_authors.values()) is in insertion order.
RECURSIVE unique_authors(_, _)
unique_authors(authors, acc) ==
    IF authors = <<>> THEN acc
    ELSE unique_authors(Tail(authors),
            IF Head(authors).authorId # "" /\ ~has_author(acc, Head(authors).authorId)
            THEN Append(acc, Head(authors)) ELSE acc)

(***************************************************************************)
(* check_author_continuity_with_abstracts                                  *)
(***************************************************************************)

\* papers_by_year: an insertion-ordered dict, keyed by the RAW year value.
RECURSIVE group_by_year(_, _)
group_by_year(ps, acc) ==
    IF ps = <<>> THEN acc
    ELSE LET p == Head(ps)
             hit == {i \in DOMAIN acc : acc[i].key = p.year}
         IN group_by_year(Tail(ps),
                IF hit = {}
                THEN Append(acc, [key |-> p.year, papers |-> <<p>>])
                ELSE [i \in DOMAIN acc |->
                        IF i \in hit
                        THEN [acc[i] EXCEPT !.papers = Append(@, p)]
                        ELSE acc[i]])

papers_by_year(ps) == group_by_year(ps, <<>>)

\* The inner loop over papers_by_year.items(): the FIRST key that converts
\* to the year supplies year_papers, and the loop breaks there.
RECURSIVE find_year_papers(_, _, _)
find_year_papers(pby, i, year) ==
    IF i > Len(pby) THEN <<>>
    ELSE LET n == year_int(pby[i].key)
         IN IF n = <<>> THEN find_year_papers(pby, i + 1, year)
            ELSE IF n[1] = year THEN pby[i].papers
            ELSE find_year_papers(pby, i + 1, year)

\* x.get('citationCount', 0) of a paper whose citationCount is null: None.
\* A paper without the key counts 0.
NoneCount == -1

\* sorted() compares every element of a list of two or more with another
\* one: a None among the keys raises TypeError.
sort_raises(year_papers) ==
    /\ Len(year_papers) >= 2
    /\ \E i \in DOMAIN year_papers : year_papers[i].citationCount = NoneCount

\* sorted(year_papers, key=citationCount, reverse=True): stable, so equal
\* counts keep their order.
RECURSIVE insert_desc(_, _)
insert_desc(sorted, p) ==
    IF sorted = <<>> THEN <<p>>
    ELSE IF Head(sorted).citationCount >= p.citationCount
         THEN <<Head(sorted)>> \o insert_desc(Tail(sorted), p)
         ELSE <<p>> \o sorted

RECURSIVE sorted_by_citations(_)
sorted_by_citations(ps) ==
    IF ps = <<>> THEN <<>>
    ELSE insert_desc(sorted_by_citations(SubSeq(ps, 1, Len(ps) - 1)), ps[Len(ps)])

\* The mutant of select_paper: fall back to the best paper that has an
\* abstract when the highest-cited one has none.
select_paper_fallback(year_papers) ==
    LET s == sorted_by_citations(year_papers)
        withAbs == SelectSeq(s, LAMBDA p : p.abstract # NoAbstract)
    IN IF withAbs # <<>> THEN Head(withAbs) ELSE Head(s)

\* selected_paper = year_papers[0] after the sort
select_paper(year_papers) == Head(sorted_by_citations(year_papers))

\* The loop's locals, with two records of what it did: examined lists the
\* years the loop body ran for, chosen the year_papers and selected_paper of
\* each year that had papers.
NoState ==
    [selected_papers |-> <<>>, missing_years |-> <<>>, examined |-> <<>>,
     chosen |-> <<>>, raised |-> "none"]

ids(ps) == {ps[i].paperId : i \in DOMAIN ps}

choice(year, year_papers, selected_paper) ==
    [year |-> year, candidates |-> ids(year_papers),
     paper |-> selected_paper.paperId]

\* The mutant of year_loop: record the failing year but keep going.
RECURSIVE year_loop_no_break(_, _, _, _)
year_loop_no_break(pby, name, yi, st) ==
    IF yi > Len(RequiredYears) THEN st
    ELSE LET year == RequiredYears[yi]
             year_papers == find_year_papers(pby, 1, year)
             seen == [st EXCEPT !.examined = Append(@, year)]
         IN IF sort_raises(year_papers)
            THEN [seen EXCEPT !.raised = "TypeError"]
            ELSE IF year_papers # <<>>
            THEN LET selected_paper == select_paper(year_papers)
                     sel == [seen EXCEPT !.chosen =
                                Append(@, choice(year, year_papers, selected_paper))]
                 IN IF selected_paper.abstract = NoAbstract
                    THEN year_loop_no_break(pby, name, yi + 1,
                            [sel EXCEPT !.missing_years =
                                Append(@, <<year, "no_abstract">>)])
                    ELSE year_loop_no_break(pby, name, yi + 1,
                            [sel EXCEPT !.selected_papers =
                                Append(@, [selected_paper EXCEPT
                                              !.author_name = name])])
            ELSE year_loop_no_break(pby, name, yi + 1,
                    [seen EXCEPT !.missing_years =
                        Append(@, <<year, "no_papers">>)])

\* "for year in required_years": select, check the abstract, break at the
\* first year that fails.
RECURSIVE year_loop(_, _, _, _)
year_loop(pby, name, yi, st) ==
    IF yi > Len(RequiredYears) THEN st
    ELSE LET year == RequiredYears[yi]
             year_papers == find_year_papers(pby, 1, year)
             seen == [st EXCEPT !.examined = Append(@, year)]
         IN IF sort_raises(year_papers)
            THEN [seen EXCEPT !.raised = "TypeError"]
            ELSE IF year_papers # <<>>
            THEN LET selected_paper == select_paper(year_papers)
                     sel == [seen EXCEPT !.chosen =
                                Append(@, choice(year, year_papers, selected_paper))]
                 IN IF selected_paper.abstract = NoAbstract
                    THEN [sel EXCEPT !.missing_years =
                            Append(@, <<year, "no_abstract">>)]
                    ELSE year_loop(pby, name, yi + 1,
                            [sel EXCEPT !.selected_papers =
                                Append(@, [selected_paper EXCEPT
                                              !.author_name = name])])
            ELSE [seen EXCEPT !.missing_years =
                    Append(@, <<year, "no_papers">>)]

\* The mutant of check_author_continuity_with_abstracts: attach the selected
\* papers whatever the outcome.
check_attach_always(a, ps) ==
    IF a.authorId = "" THEN [ret |-> FALSE, author |-> a, st |-> NoState]
    ELSE LET st == year_loop(papers_by_year(ps), a.name, 1, NoState)
         IN [ret |-> Len(st.selected_papers) = RequiredCount,
             author |-> [a EXCEPT !.has_validated = TRUE,
                                  !.validated_papers = st.selected_papers],
             st |-> st]

\* The whole call: the value returned, the candidate dict as the call leaves
\* it, and the loop's record; st.raised names the exception that left the
\* call, if one did (ret is then no value of the call).
check_author_continuity_with_abstracts(a, ps) ==
    IF a.authorId = "" THEN [ret |-> FALSE, author |-> a, st |-> NoState]
    ELSE LET st == year_loop(papers_by_year(ps), a.name, 1, NoState)
         IN IF Len(st.selected_papers) = RequiredCount
            THEN [ret |-> TRUE,
                  author |-> [a EXCEPT !.has_validated = TRUE,
                                       !.validated_papers = st.selected_papers],
                  st |-> st]
            ELSE [ret |-> FALSE, author |-> a, st |-> st]

\* A candidate as discovery hands it over, and the record of a check that
\* has not run yet.
FreshAuthor ==
    [authorId |-> CandidateId, name |-> CandidateName,
     has_validated |-> FALSE, validated_papers |-> <<>>]

Pending ==
    [phase |-> "pending", ret |-> FALSE, missing_years |-> <<>>,
     examined |-> <<>>, chosen |-> <<>>, raised |-> "none"]

(***************************************************************************)
(* The output directory                                                    *)
(***************************************************************************)

\* f"{author_index:02d}" and the int() that reads it back from a file name.
TwoDigits == <<"01", "02", "03", "04", "05", "06", "07", "08", "09", "10", "11", "12">>
OneDigit == <<"1", "2", "3", "4", "5", "6", "7", "8", "9">>

\* The mutant of format_02d: the index is written without padding.
format_d(n) == OneDigit[n]

format_02d(n) == TwoDigits[n]

\* int(s) of an index as a file name carries it: two digits as the collector
\* writes them, one digit as int() also accepts, or no number (ValueError).
index_int(s) ==
    IF \E n \in DOMAIN TwoDigits : TwoDigits[n] = s
    THEN <<CHOOSE n \in DOMAIN TwoDigits : TwoDigits[n] = s>>
    ELSE IF \E n \in DOMAIN OneDigit : OneDigit[n] = s
    THEN <<CHOOSE n \in DOMAIN OneDigit : OneDigit[n] = s>>
    ELSE <<>>

\* A file name is '_'.join(parts) + '.' + ext, the parts free of '_' and '.'.
Name(parts, ext) == [parts |-> parts, ext |-> ext]

\* f"Academic_{self.field}_{year_str}_{author_index:02d}.txt"
FileName(ys, idx) == Name(<<"Academic", "CS", ys, idx>>, "txt")

\* The mutant of is_abstract_file: every .txt file is taken.
is_any_txt(f) == f.ext = "txt"

\* filename.startswith(f"Academic_{self.field}_") and filename.endswith('.txt')
is_abstract_file(f) ==
    /\ Len(f.parts) >= 3
    /\ f.parts[1] = "Academic"
    /\ f.parts[2] = "CS"
    /\ f.ext = "txt"

\* filename.split('_'): the parts, the extension still on the last of them.
split_underscore(f) ==
    [k \in DOMAIN f.parts |->
        IF k = Len(f.parts) THEN f.parts[k] \o "." \o f.ext ELSE f.parts[k]]

\* parts[-1].split('.')[0]
last_stem(f) == f.parts[Len(f.parts)]

\* The mutant of _count_existing_successful_authors: an index counts as soon
\* as a file for the first required year is there.
count_first_year_only(d) ==
    LET author_indices ==
            {x[1] : x \in {y \in {index_int(last_stem(f)) :
                                    f \in {g \in DOMAIN d :
                                             /\ is_abstract_file(g)
                                             /\ Len(split_underscore(g)) >= 4}} :
                           y # <<>>}}
    IN Cardinality({author_index \in author_indices :
            FileName(str(FirstYear), format_02d(author_index)) \in DOMAIN d})

\* The directory is a function from the names of the files in it to their
\* contents.
\* _count_existing_successful_authors
_count_existing_successful_authors(d) ==
    LET scanned == {f \in DOMAIN d :
                        is_abstract_file(f) /\ Len(split_underscore(f)) >= 4}
        parsed == {index_int(last_stem(f)) : f \in scanned}
        author_indices == {x[1] : x \in {y \in parsed : y # <<>>}}
        has_all_years(author_index) ==
            \A k \in DOMAIN RequiredYears :
                FileName(str(RequiredYears[k]), format_02d(author_index)) \in DOMAIN d
    IN Cardinality({author_index \in author_indices : has_all_years(author_index)})

\* The mutant of first_author_index: start at the count itself.
first_author_index_no_increment(d) == _count_existing_successful_authors(d)

\* next_author_index = existing_authors + 1
first_author_index(d) == _count_existing_successful_authors(d) + 1

tagged(selected_papers, next_author_index) ==
    [k \in DOMAIN selected_papers |->
        [selected_papers[k] EXCEPT !.author_index = next_author_index]]

\* The mutant of collect_loop: an author without validated papers uses up
\* an index too.
RECURSIVE collect_loop_always_increments(_, _, _, _)
collect_loop_always_increments(authors, i, next_author_index, acc) ==
    IF i > Len(authors) THEN acc
    ELSE IF authors[i].has_validated
    THEN collect_loop_always_increments(authors, i + 1, next_author_index + 1,
            [all_papers |-> acc.all_papers
                            \o tagged(authors[i].validated_papers, next_author_index),
             authors |-> [acc.authors EXCEPT ![i].validated_papers =
                            tagged(@, next_author_index)]])
    ELSE collect_loop_always_increments(authors, i + 1, next_author_index + 1, acc)

\* "for i, author in enumerate(authors)": the papers of each author that has
\* '_validated_papers' get the next index, written into the paper dicts.
RECURSIVE collect_loop(_, _, _, _)
collect_loop(authors, i, next_author_index, acc) ==
    IF i > Len(authors) THEN acc
    ELSE IF authors[i].has_validated
    THEN collect_loop(authors, i + 1, next_author_index + 1,
            [all_papers |-> acc.all_papers
                            \o tagged(authors[i].validated_papers, next_author_index),
             authors |-> [acc.authors EXCEPT ![i].validated_papers =
                            tagged(@, next_author_index)]])
    ELSE collect_loop(authors, i + 1, next_author_index, acc)

\* collect_abstracts: the tagged papers, and the author dicts as the call
\* leaves them.
collect_abstracts(authors, d) ==
    collect_loop(authors, 1, first_author_index(d),
                 [all_papers |-> <<>>, authors |-> authors])

\* The text written to a file.
FileContent(paper) ==
    [author_name |-> paper.author_name, title |-> paper.title,
     paperId |-> paper.paperId, year |-> paper.year,
     author_index |-> paper.author_index, abstract |-> paper.abstract]

write_file(d, name, content) ==
    [f \in DOMAIN d \cup {name} |-> IF f = name THEN content ELSE d[f]]

\* "if not abstract or not year or not author_index"
incomplete(paper) ==
    paper.abstract = NoAbstract \/ not_year(paper.year) \/ paper.author_index = 0

\* The state of save_abstracts_to_files: the directory, the names opened for
\* writing, the local variable filename (<<>> while unbound), the papers
\* skipped, the writes that failed, and the exception that ended the call.
SaveStart(d) ==
    [disk |-> d, written |-> <<>>, filename |-> <<>>, skipped |-> <<>>,
     failed |-> <<>>, raised |-> "none"]

\* "for paper in papers": io_fail holds the positions whose open() raises.
\* The skip branch prints filename, which is bound only once an earlier
\* paper has been written.
RECURSIVE save_loop(_, _, _, _)
save_loop(ps, k, io_fail, st) ==
    IF k > Len(ps) THEN st
    ELSE LET paper == ps[k]
         IN IF incomplete(paper)
            THEN IF st.filename = <<>>
                 THEN [st EXCEPT !.raised = "UnboundLocalError"]
                 ELSE save_loop(ps, k + 1, io_fail,
                                [st EXCEPT !.skipped = Append(@, k)])
            ELSE LET filename == FileName(year_str(paper.year),
                                          format_02d(paper.author_index))
                 IN IF k \in io_fail
                    THEN save_loop(ps, k + 1, io_fail,
                            [st EXCEPT !.filename = <<filename>>,
                                       !.failed = Append(@, filename)])
                    ELSE save_loop(ps, k + 1, io_fail,
                            [st EXCEPT !.filename = <<filename>>,
                                       !.written = Append(@, filename),
                                       !.disk = write_file(@, filename,
                                                           FileContent(paper))])

save_abstracts_to_files(ps, d, io_fail) == save_loop(ps, 1, io_fail, SaveStart(d))

(***************************************************************************)
(* run(): normal and incremental mode                                      *)
(***************************************************************************)

EmptyFunction == [x \in {} |-> x]
NoProgress == [exists |-> FALSE, authors |-> <<>>]
\* The first run on the directory; no run has crashed.
FirstRun == [runs |-> 1, snapshotted |-> {}]
NoReport == [exists |-> FALSE]
NoLocals ==
    [existing_count |-> 0, target_count |-> 0, loaded |-> <<>>,
     field_authors |-> <<>>, i |-> 0, found |-> <<>>,
     continuous_authors |-> <<>>, all_papers |-> <<>>, raised |-> "none",
     limit |-> 0, stages |-> <<>>, real |-> <<>>]
NoParams ==
    [target_authors |-> 0, resume |-> FALSE, debug_mode |-> FALSE,
     fill_missing |-> FALSE, debug_authors |-> <<>>]

\* The run variables of a specification that only applies the qualifier.
IdleRun ==
    /\ params = NoParams
    /\ pc = "idle"
    /\ loc = NoLocals
    /\ disk = EmptyFunction
    /\ disk0 = EmptyFunction
    /\ saved = SaveStart(EmptyFunction)
    /\ cache = EmptyFunction
    /\ gets = <<>>
    /\ history = FirstRun
    /\ call = NoCall
    /\ progress = NoProgress
    /\ report = NoReport

\* --- what the run finds when it starts ---------------------------------

\* Author indices the output directory may already hold files for.
MaxExisting == 2
\* target_authors
MaxTarget == 3
\* Authors in the debug authors file.
MaxDebugAuthors == 2

OldContent(y, n) ==
    [author_name |-> "Previous Author", title |-> FieldTitle, paperId |-> 0,
     year |-> IntYear(y), author_index |-> n, abstract |-> SomeAbstract]

\* An index of the directory is absent, complete (a file for every required
\* year) or partial (files for the first two years only).
IndexStates == {"absent", "complete", "partial"}
PartialYears == {FirstYear, FirstYear + 1}

FilesOf(n, st) ==
    {FileName(str(y), format_02d(n)) :
        y \in (IF st = "complete" THEN RequiredYearSet
               ELSE IF st = "partial" THEN PartialYears ELSE {})}

DirectoryOf(layout) ==
    LET names == UNION {FilesOf(n, layout[n]) : n \in DOMAIN layout}
    IN [f \in names |-> OldContent(int(f.parts[3])[1],
                                    index_int(f.parts[4])[1])]

InitialDirectories == {DirectoryOf(layout) : layout \in [1..MaxExisting -> IndexStates]}

\* One paper per required year for author a; at year `bad` the paper is
\* changed by `how`.
PapersOf(a, bad, how) ==
    [k \in DOMAIN RequiredYears |->
        RawPaper(k, FieldTitle,
                 IF how = "venue" /\ RequiredYears[k] = bad THEN OtherVenue
                 ELSE TopFieldVenue,
                 <<a>>,
                 IF how = "year" /\ RequiredYears[k] = bad THEN NoneYear
                 ELSE IntYear(RequiredYears[k]),
                 k,
                 IF how = "abstract" /\ RequiredYears[k] = bad THEN NoAbstract
                 ELSE SomeAbstract)]

GoodPapers(a) == PapersOf(a, 0, "nothing")

AuthorIds == {"a1", "a2"}
NameOf(a) == IF a = "a1" THEN "Andrew Ng" ELSE "Yann LeCun"

Candidate(a) ==
    [authorId |-> a, name |-> NameOf(a),
     has_validated |-> FALSE, validated_papers |-> <<>>]

named(ps, name) == [k \in DOMAIN ps |-> [ps[k] EXCEPT !.author_name = name]]

\* An author dict as a qualifying run leaves it in progress.json.
QualifiedAuthor(a, name) ==
    [authorId |-> a, name |-> name, has_validated |-> TRUE,
     validated_papers |-> named(GoodPapers(a), name)]

\* The authors a debug authors file may hold: complete ones, one without
\* '_validated_papers', one whose first paper has no abstract, one whose
\* third paper has no year.
DebugKinds == {"valid", "unvalidated", "first_no_abstract", "third_no_year"}

DebugAuthor(n, kind) ==
    LET a == IF n = 1 THEN "d1" ELSE IF n = 2 THEN "d2" ELSE "d3"
        name == "Debug Author"
    IN [authorId |-> a, name |-> name,
        has_validated |-> kind # "unvalidated",
        validated_papers |->
            IF kind = "unvalidated" THEN <<>>
            ELSE IF kind = "first_no_abstract"
                 THEN named(PapersOf(a, FirstYear, "abstract"), name)
            ELSE IF kind = "third_no_year"
                 THEN named(PapersOf(a, FirstYear + 2, "year"), name)
            ELSE named(GoodPapers(a), name)]

DebugFiles ==
    UNION {{[n \in 1..len |-> DebugAuthor(n, kinds[n])] :
                kinds \in [1..len -> DebugKinds]} : len \in 0..MaxDebugAuthors}

ProgressFiles ==
    {NoProgress,
     [exists |-> TRUE, authors |-> <<QualifiedAuthor("p1", "Fei-Fei Li")>>],
     [exists |-> TRUE, authors |-> <<QualifiedAuthor("p1", "Fei-Fei Li"),
                                     QualifiedAuthor("p2", "Ian Goodfellow")>>]}

\* What the metadata service may answer when asked for the papers of a: five
\* qualifying papers, the same with the 2022 abstract missing, the same with
\* the 2021 paper outside the top venues, nothing, a 429, a 500, or no answer.
ServiceAnswers(a) ==
    {Response200(GoodPapers(a)),
     Response200(PapersOf(a, FirstYear + 2, "abstract")),
     Response200(PapersOf(a, FirstYear + 1, "venue")),
     Response200(<<>>),
     ResponseStatus(429), ResponseStatus(500), RequestException}

\* The candidate lists discovery may return: authors with distinct ids.
CandidateLists ==
    {<<>>} \cup {<<Candidate(a)>> : a \in AuthorIds}
           \cup {<<Candidate(ab[1]), Candidate(ab[2])>> :
                    ab \in {x \in AuthorIds \X AuthorIds : x[1] # x[2]}}

\* The positions of a save whose open() may fail: none, the first or the last.
WriteFailures(ps) ==
    {{}} \cup {{k} : k \in {1, Len(ps)} \cap DOMAIN ps}

\* The mutant of missing_count: the whole target is asked for.
missing_count_is_target(target_authors, have) == target_authors

\* missing_count = target_authors - existing_count, and in normal mode
\* target_authors - len(continuous_authors): the authors still to be found.
missing_count(target_authors, have) == target_authors - have

\* The mutant of extend: the loaded authors are dropped.
extend_drops_loaded(continuous_authors, additional_authors) ==
    additional_authors

\* continuous_authors.extend(additional_authors)
extend(continuous_authors, additional_authors) ==
    continuous_authors \o additional_authors

\* The mutant of target_reached: the loop runs through every candidate.
target_never_reached(continuous_authors, target_count) == FALSE

\* if len(continuous_authors) >= target_count: break
target_reached(continuous_authors, target_count) ==
    Len(continuous_authors) >= target_count

Init ==
    /\ author = FreshAuthor
    /\ papers = <<>>
    /\ verdict = Pending
    /\ pc = "start"
    /\ loc = NoLocals
    /\ disk \in InitialDirectories
    /\ disk0 = disk
    /\ saved = SaveStart(disk)
    /\ cache = EmptyFunction
    /\ gets = <<>>
    /\ history = FirstRun
    /\ call = NoCall
    /\ report = NoReport
    /\ \E t \in 1..MaxTarget, fm \in BOOLEAN :
         \/ /\ \E df \in DebugFiles :
                 params = [target_authors |-> t, resume |-> TRUE,
                           debug_mode |-> TRUE, fill_missing |-> fm,
                           debug_authors |-> df]
            /\ progress = NoProgress
         \/ /\ \E rs \in BOOLEAN :
                 params = [target_authors |-> t, resume |-> rs,
                           debug_mode |-> FALSE, fill_missing |-> fm,
                           debug_authors |-> <<>>]
            /\ progress \in ProgressFiles

\* --- run() ----------------------------------------------------------------

\* _run_incremental_mode, up to the call of find_continuous_authors.
StartIncremental ==
    /\ pc = "start"
    /\ params.fill_missing
    /\ LET existing_count == _count_existing_successful_authors(disk)
       IN IF existing_count >= params.target_authors
          THEN /\ pc' = "done"
               /\ loc' = [loc EXCEPT !.existing_count = existing_count]
          ELSE /\ pc' = "find"
               /\ loc' = [loc EXCEPT !.existing_count = existing_count,
                                     !.target_count =
                                        missing_count(params.target_authors,
                                                      existing_count)]
    /\ UNCHANGED <<history, qvars, params, disk, disk0, saved, cache, gets, call,
                 progress, report>>

\* run() in normal mode, up to the call of find_continuous_authors: a
\* progress file is loaded when resume is set and this is no debug run.
StartNormal ==
    /\ pc = "start"
    /\ ~params.fill_missing
    /\ IF params.resume /\ ~params.debug_mode /\ progress.exists
       THEN IF Len(progress.authors) >= params.target_authors
            THEN /\ pc' = "collect"
                 /\ loc' = [loc EXCEPT !.loaded = progress.authors,
                                       !.continuous_authors = progress.authors]
            ELSE /\ pc' = "find"
                 /\ loc' = [loc EXCEPT !.loaded = progress.authors,
                                       !.target_count =
                                          missing_count(params.target_authors,
                                                        Len(progress.authors))]
       ELSE /\ pc' = "find"
            /\ loc' = [loc EXCEPT !.target_count = params.target_authors]
    /\ UNCHANGED <<history, qvars, params, disk, disk0, saved, cache, gets, call,
                 progress, report>>

\* find_continuous_authors in debug mode: debug_authors[:target_count].
FindDebug ==
    /\ pc = "find"
    /\ params.debug_mode
    /\ loc' = [loc EXCEPT !.found =
                  SubSeq(params.debug_authors, 1,
                         IF Len(params.debug_authors) < loc.target_count
                         THEN Len(params.debug_authors) ELSE loc.target_count)]
    /\ pc' = "found"
    /\ UNCHANGED <<history, qvars, params, disk, disk0, saved, cache, gets, call,
                 progress, report>>

\* search_field_authors: the candidates the service's answers yield.
Discover ==
    /\ pc = "find"
    /\ ~params.debug_mode
    /\ \E l \in CandidateLists :
         loc' = [loc EXCEPT !.field_authors = l, !.i = 1, !.found = <<>>]
    /\ pc' = "check"
    /\ UNCHANGED <<history, qvars, params, disk, disk0, saved, cache, gets, call,
                 progress, report>>

\* save_progress
save_progress(authors) == [exists |-> TRUE, authors |-> authors]

\* The mutant of append_qualified: the candidate is appended whatever the
\* check returned.
append_checked(continuous_authors, r) == Append(continuous_authors, r.author)

\* "if self.check_author_continuity_with_abstracts(author):
\*      continuous_authors.append(author)"
append_qualified(continuous_authors, r) ==
    IF r.ret THEN Append(continuous_authors, r.author) ELSE continuous_authors

\* One round of the loop of find_continuous_authors on candidate a, the
\* service answering resp if it is asked: the candidate is fetched and
\* checked; a qualified one is appended and progress is saved.
\* save_progress opens progress.json outside any try: when the open fails
\* (io_fail) the exception leaves find_continuous_authors and run().
CheckCandidate(a, resp, io_fail) ==
    \E g \in {get_author_papers(cache, a.authorId, RequiredYears, resp)} :
    \E r \in {check_author_continuity_with_abstracts(a, g.papers)} :
    \E found \in {append_qualified(loc.found, r)} :
       /\ io_fail => r.ret
       /\ author' = r.author
       /\ papers' = g.papers
       /\ verdict' = [phase |-> "returned", ret |-> r.ret,
                      missing_years |-> r.st.missing_years,
                      examined |-> r.st.examined,
                      chosen |-> r.st.chosen,
                      raised |-> r.st.raised]
       /\ cache' = g.cache
       /\ gets' = gets \o g.gets
       /\ call' = Met(cache, "author_papers",
                      _get_paper_cache_key(a.authorId, RequiredYears),
                      g.gets, g.papers, g.events, resp)
       /\ loc' = [loc EXCEPT !.i = @ + 1, !.found = found,
                             !.raised = IF io_fail THEN "OSError"
                                        ELSE r.st.raised]
       /\ progress' = IF r.ret /\ ~io_fail THEN save_progress(found)
                      ELSE progress
       /\ pc' = IF io_fail \/ r.st.raised # "none" THEN "raised"
                ELSE pc

\* The loop of find_continuous_authors takes up the next candidate.
CheckNext ==
    /\ pc = "check"
    /\ loc.i <= Len(loc.field_authors)
    /\ ~target_reached(loc.found, loc.target_count)
    /\ LET a == loc.field_authors[loc.i]
       IN \E resp \in ServiceAnswers(a.authorId), io_fail \in BOOLEAN :
            CheckCandidate(a, resp, io_fail)
    /\ UNCHANGED <<history, params, disk, disk0, saved, report>>

\* The loop ends: the target is reached or the candidates are used up.
FindDone ==
    /\ pc = "check"
    /\ \/ loc.i > Len(loc.field_authors)
       \/ target_reached(loc.found, loc.target_count)
    /\ pc' = "found"
    /\ UNCHANGED <<history, qvars, params, loc, disk, disk0, saved, cache, gets, call,
                 progress, report>>

\* Back in run(): the new authors extend the loaded ones (normal mode), and
\* the run returns when there is no author at all.
AfterFind ==
    /\ pc = "found"
    /\ LET continuous_authors ==
               IF params.fill_missing THEN loc.found
               ELSE extend(loc.loaded, loc.found)
       IN /\ loc' = [loc EXCEPT !.continuous_authors = continuous_authors]
          /\ pc' = IF continuous_authors = <<>> THEN "done" ELSE "collect"
    /\ UNCHANGED <<history, qvars, params, disk, disk0, saved, cache, gets, call,
                 progress, report>>

\* collect_abstracts
Collect ==
    /\ pc = "collect"
    /\ LET c == collect_abstracts(loc.continuous_authors, disk)
       IN loc' = [loc EXCEPT !.all_papers = c.all_papers,
                             !.continuous_authors = c.authors]
    /\ pc' = "save"
    /\ UNCHANGED <<history, qvars, params, disk, disk0, saved, cache, gets, call,
                 progress, report>>

\* save_abstracts_to_files: an exception it raises ends the run.
Save ==
    /\ pc = "save"
    /\ \E io_fail \in WriteFailures(loc.all_papers) :
         \E st \in {save_abstracts_to_files(loc.all_papers, disk, io_fail)} :
            /\ saved' = st
            /\ disk' = st.disk
            /\ pc' = IF st.raised = "none" THEN "report" ELSE "raised"
    /\ UNCHANGED <<history, qvars, params, loc, disk0, cache, gets, call,
                 progress, report>>

\* The count of files per year string that both report generators make.
\* os.listdir(self.output_dir): the abstract files and, once written,
\* progress.json and collection_report.txt.
ProgressName == Name(<<"progress">>, "json")
ReportName == Name(<<"collection", "report">>, "txt")
listdir(d, p, r) ==
    DOMAIN d \cup (IF p.exists THEN {ProgressName} ELSE {})
             \cup (IF r.exists THEN {ReportName} ELSE {})

\* saved_files: the names the scan of a report takes.
saved_files(names) == {f \in names : is_abstract_file(f)}

\* actual_year_counts: the taken names counted under parts[2].
year_counts(names) ==
    LET counted == {f \in saved_files(names) : Len(split_underscore(f)) >= 3}
    IN [ys \in {split_underscore(f)[3] : f \in counted} |->
           Cardinality({f \in counted : split_underscore(f)[3] = ys})]

\* What generate_report and _generate_incremental_report write from the
\* directory they scan.
\* The incremental report adds the count of complete authors and the line
\* that says whether the files on disk are those of complete authors only.
ExpectedFilesPerAuthor == 4
write_report(mode, d, p, r) ==
    LET actual_year_counts == year_counts(listdir(d, p, r))
        actual_total_files == Cardinality(saved_files(listdir(d, p, r)))
        complete_authors == _count_existing_successful_authors(d)
    IN IF mode = "incremental"
       THEN [exists |-> TRUE,
             mode |-> mode,
             actual_year_counts |-> actual_year_counts,
             actual_total_files |-> actual_total_files,
             complete_authors |-> complete_authors,
             all_complete |->
                actual_total_files = complete_authors * ExpectedFilesPerAuthor]
       ELSE [exists |-> TRUE,
             mode |-> mode,
             actual_year_counts |-> actual_year_counts,
             actual_total_files |-> actual_total_files]

\* generate_report / _generate_incremental_report
Report ==
    /\ pc = "report"
    /\ report' = write_report(IF params.fill_missing THEN "incremental"
                              ELSE "normal", disk, progress, report)
    /\ pc' = "done"
    /\ UNCHANGED <<history, qvars, params, loc, disk, disk0, saved, cache, gets, call,
                 progress>>

Next ==
    \/ StartIncremental
    \/ StartNormal
    \/ FindDebug
    \/ Discover
    \/ CheckNext
    \/ FindDone
    \/ AfterFind
    \/ Collect
    \/ Save
    \/ Report

Spec == Init /\ [][Next]_vars

(***************************************************************************)
(* The qualifier applied to every bounded paper list                       *)
(***************************************************************************)

\* Papers one year can hold at most in a fetched list.
MaxPerYear == 2
CitationCounts == {0, 1}

\* One year of the window varies freely: up to MaxPerYear papers, each with
\* an integer or a string year, any citation count, with or without abstract.
FocusKinds(y) ==
    {[year |-> yv, citationCount |-> c, abstract |-> a] :
        yv \in {IntYear(y), StrYear(str(y))}, c \in CitationCounts, a \in Abstracts}

FocusLists(y) ==
    UNION {[1..n -> FocusKinds(y)] : n \in 0..MaxPerYear}

\* Every other year holds no paper, or one paper with or without abstract.
PlainChoices == {"none"} \cup Abstracts

PlainList(y, ch) ==
    IF ch = "none" THEN <<>>
    ELSE <<[year |-> IntYear(y), citationCount |-> 0, abstract |-> ch]>>

RECURSIVE concat_years(_, _, _, _)
concat_years(yi, focus, fl, plain) ==
    IF yi > Len(RequiredYears) THEN <<>>
    ELSE LET y == RequiredYears[yi]
         IN (IF y = focus THEN fl ELSE PlainList(y, plain[y]))
            \o concat_years(yi + 1, focus, fl, plain)

\* paperId: the position in the fetched list.
numbered(l) ==
    [i \in DOMAIN l |-> Paper(i, l[i].year, l[i].citationCount, l[i].abstract)]

InitQualify ==
    /\ author = FreshAuthor
    /\ verdict = Pending
    /\ IdleRun
    /\ \E focus \in RequiredYearSet :
         \E fl \in FocusLists(focus) :
           \E plain \in [RequiredYearSet \ {focus} -> PlainChoices] :
             papers = numbered(concat_years(1, focus, fl, plain))

\* find_continuous_authors line 863: the qualifier runs on the candidate.
CheckAuthor ==
    /\ verdict.phase = "pending"
    /\ LET r == check_author_continuity_with_abstracts(author, papers)
       IN /\ verdict' = [phase |-> "returned", ret |-> r.ret,
                         missing_years |-> r.st.missing_years,
                         examined |-> r.st.examined,
                         chosen |-> r.st.chosen,
                         raised |-> r.st.raised]
          /\ author' = r.author
    /\ UNCHANGED papers
    /\ UNCHANGED rvars

NextQualify == CheckAuthor

SpecQualify == InitQualify /\ [][NextQualify]_vars

(***************************************************************************)
(* The client and the qualifier on payloads with missing fields            *)
(***************************************************************************)

\* Papers the payload holds for the year that varies.
MaxPayload == 2

\* A paper of the payload: its year an integer, null or a string that is no
\* numeral; its citation count a number or null; with or without abstract
\* (NoAbstract stands for an absent, a null and an empty abstract alike:
\* every read of the key is "not paper.get('abstract')" or "... or ''").
PayloadKinds(y) ==
    {[year |-> yv, citationCount |-> c, abstract |-> a] :
        yv \in {IntYear(y), NoneYear, StrYear("n/a")},
        c \in {0, 1, NoneCount}, a \in Abstracts}

PayloadLists(y) ==
    UNION {[1..n -> PayloadKinds(y)] : n \in 0..MaxPayload}

\* Every other year holds one sound paper.
SoundPaper(y) ==
    <<[year |-> IntYear(y), citationCount |-> 0, abstract |-> SomeAbstract]>>

RECURSIVE payload_years(_, _, _)
payload_years(yi, focus, fl) ==
    IF yi > Len(RequiredYears) THEN <<>>
    ELSE LET y == RequiredYears[yi]
         IN (IF y = focus THEN fl \o SoundPaper(y) ELSE SoundPaper(y))
            \o payload_years(yi + 1, focus, fl)

InitPayload ==
    /\ author = FreshAuthor
    /\ verdict = Pending
    /\ params = NoParams
    /\ pc = "payload"
    /\ loc = NoLocals
    /\ disk = EmptyFunction
    /\ disk0 = EmptyFunction
    /\ saved = SaveStart(EmptyFunction)
    /\ cache = EmptyFunction
    /\ gets = <<>>
    /\ call = NoCall
    /\ history = FirstRun
    /\ progress = NoProgress
    /\ report = NoReport
    /\ \E focus \in RequiredYearSet :
         \E fl \in PayloadLists(focus) :
            papers = numbered(payload_years(1, focus, fl))

\* check_author_continuity_with_abstracts on a candidate whose papers the
\* service answers with the payload: the fetch, the filters, the selection.
CheckPayload ==
    /\ pc = "payload"
    /\ LET g == get_author_papers(cache, author.authorId, RequiredYears,
                                  Response200(papers))
           r == check_author_continuity_with_abstracts(author, g.papers)
       IN /\ verdict' = [phase |-> "returned", ret |-> r.ret,
                         missing_years |-> r.st.missing_years,
                         examined |-> r.st.examined,
                         chosen |-> r.st.chosen,
                         raised |-> r.st.raised]
          /\ author' = r.author
          /\ cache' = g.cache
          /\ gets' = g.gets
          /\ pc' = IF r.st.raised # "none" THEN "raised" ELSE "checked"
    /\ UNCHANGED <<papers, params, loc, disk, disk0, saved, call, history,
                   progress, report>>

NextPayload == CheckPayload

SpecPayload == InitPayload /\ [][NextPayload]_vars

(***************************************************************************)
(* Runs that crash and are resumed on one output directory                 *)
(***************************************************************************)

\* Runs on the directory, the first included.
MaxRuns == 3

author_ids(authors) == {authors[k].authorId : k \in DOMAIN authors}

\* A fresh directory; run(target_authors) in normal mode with resume.
InitRuns ==
    /\ author = FreshAuthor
    /\ papers = <<>>
    /\ verdict = Pending
    /\ pc = "start"
    /\ loc = NoLocals
    /\ disk = EmptyFunction
    /\ disk0 = disk
    /\ saved = SaveStart(disk)
    /\ cache = EmptyFunction
    /\ gets = <<>>
    /\ call = NoCall
    /\ history = FirstRun
    /\ progress = NoProgress
    /\ report = NoReport
    /\ \E t \in 1..MaxTarget :
         params = [target_authors |-> t, resume |-> TRUE,
                   debug_mode |-> FALSE, fill_missing |-> FALSE,
                   debug_authors |-> <<>>]

\* The process dies between two steps of run(); what is on disk stays.
Crash ==
    /\ pc \in {"find", "check", "found", "collect", "save", "report"}
    /\ pc' = "crashed"
    /\ history' = [history EXCEPT
                      !.snapshotted = @ \cup author_ids(progress.authors)]
    /\ UNCHANGED <<qvars, params, loc, disk, disk0, saved, cache, gets, call,
                   progress, report>>

\* run() is called again on the same directory with the same arguments.
Rerun ==
    /\ pc \in {"crashed", "done", "raised"}
    /\ history.runs < MaxRuns
    /\ pc' = "start"
    /\ history' = [history EXCEPT !.runs = @ + 1]
    /\ author' = FreshAuthor
    /\ papers' = <<>>
    /\ verdict' = Pending
    /\ loc' = NoLocals
    /\ disk0' = disk
    /\ saved' = SaveStart(disk)
    /\ gets' = <<>>
    /\ call' = NoCall
    /\ UNCHANGED <<params, disk, cache, progress, report>>

NextRuns ==
    \/ StartNormal
    \/ Discover
    \/ CheckNext
    \/ FindDone
    \/ AfterFind
    \/ Collect
    \/ Save
    \/ Report
    \/ Crash
    \/ Rerun

SpecRuns == InitRuns /\ [][NextRuns]_vars

(***************************************************************************)
(* The directory scans on their own: the count and the two reports         *)
(***************************************************************************)

\* Files in the directory that the collector did not write.
MaxForeign == 2
\* Reports written one after the other.
MaxReports == 2

\* Names a directory may also hold: no index, a part too many, an index
\* written with one digit, another extension, another prefix.
ForeignNames ==
    {Name(<<"Academic", "CS", "notes">>, "txt"),
     Name(<<"Academic", "CS", str(FirstYear + 2), format_02d(2), "old">>, "txt"),
     Name(<<"Academic", "CS", str(FirstYear + 1), OneDigit[2]>>, "txt"),
     Name(<<"Academic", "CS", str(FirstYear), format_02d(1)>>, "bak"),
     Name(<<"notes">>, "txt")}

ForeignContent ==
    [author_name |-> "Somebody", title |-> OtherTitle, paperId |-> 0,
     year |-> NoneYear, author_index |-> 0, abstract |-> NoAbstract]

\* The directories of InitialDirectories with up to MaxForeign foreign files.
ScanDirectories ==
    {[f \in DOMAIN d \cup extra |->
        IF f \in DOMAIN d THEN d[f] ELSE ForeignContent] :
        d \in InitialDirectories,
        extra \in {e \in SUBSET ForeignNames : Cardinality(e) <= MaxForeign}}

InitScan ==
    /\ author = FreshAuthor
    /\ papers = <<>>
    /\ verdict = Pending
    /\ params = NoParams
    /\ pc = "scan"
    /\ loc = NoLocals
    /\ disk \in ScanDirectories
    /\ disk0 = disk
    /\ saved = SaveStart(disk)
    /\ cache = EmptyFunction
    /\ gets = <<>>
    /\ call = NoCall
    /\ history = FirstRun
    /\ progress \in {NoProgress, save_progress(<<>>)}
    /\ report = NoReport

\* _count_existing_successful_authors()
CountExisting ==
    /\ pc \in {"scan", "counted", "reported"}
    /\ pc' = "counted"
    /\ loc' = [loc EXCEPT !.existing_count =
                              _count_existing_successful_authors(disk)]
    /\ UNCHANGED <<qvars, params, disk, disk0, saved, cache, gets, call,
                   history, progress, report>>

\* generate_report(authors, papers)
GenerateReport ==
    /\ pc \in {"scan", "counted", "reported"}
    /\ loc.i < MaxReports
    /\ pc' = "reported"
    /\ report' = write_report("normal", disk, progress, report)
    /\ loc' = [loc EXCEPT !.i = @ + 1]
    /\ UNCHANGED <<qvars, params, disk, disk0, saved, cache, gets, call,
                   history, progress>>

\* _generate_incremental_report()
GenerateIncrementalReport ==
    /\ pc \in {"scan", "counted", "reported"}
    /\ loc.i < MaxReports
    /\ pc' = "reported"
    /\ report' = write_report("incremental", disk, progress, report)
    /\ loc' = [loc EXCEPT !.i = @ + 1]
    /\ UNCHANGED <<qvars, params, disk, disk0, saved, cache, gets, call,
                   history, progress>>

NextScan ==
    \/ CountExisting
    \/ GenerateReport
    \/ GenerateIncrementalReport

SpecScan == InitScan /\ [][NextScan]_vars

(***************************************************************************)
(* The service client over a cache directory that outlives the runs        *)
(***************************************************************************)

\* GETs issued before the client is left alone.
MaxGets == 3

known_scholars == <<"Andrew Ng", "Yann LeCun">>

SearchResult(id, name) ==
    [authorId |-> id, name |-> name, has_validated |-> FALSE,
     validated_papers |-> <<>>]

\* What the service may answer to an author search: the scholar, the scholar
\* after a laboratory, an institution and a mononym only, an entry without
\* id, nothing, a 429, a 500, no answer, or a body that is no JSON.
SearchAnswers(k) ==
    LET a == IF k = 1 THEN "a1" ELSE "a2"
    IN {Response200(<<SearchResult(a, known_scholars[k])>>),
        Response200(<<SearchResult("l1", "Ng Lab"),
                      SearchResult(a, known_scholars[k])>>),
        Response200(<<SearchResult("l1", "Ng Lab"),
                      SearchResult("m1", "Madonna")>>),
        Response200(<<SearchResult("", known_scholars[k])>>),
        Response200(<<>>),
        ResponseStatus(429), ResponseStatus(500), RequestException,
        MalformedBody}

InitClient ==
    /\ author = FreshAuthor
    /\ papers = <<>>
    /\ verdict = Pending
    /\ params = NoParams
    /\ pc = "client"
    /\ loc = NoLocals
    /\ disk = EmptyFunction
    /\ disk0 = EmptyFunction
    /\ saved = SaveStart(EmptyFunction)
    /\ cache = EmptyFunction
    /\ gets = <<>>
    /\ history = FirstRun
    /\ call = NoCall
    /\ progress = NoProgress
    /\ report = NoReport

\* search_field_authors is entered: authors = [], the loop is at its start.
EnterSearch ==
    /\ pc = "client"
    /\ Len(gets) < MaxGets
    /\ pc' = "known_scholars"
    /\ loc' = [loc EXCEPT !.field_authors = <<>>, !.i = 1]
    /\ call' = NoCall
    /\ UNCHANGED <<history, qvars, params, disk, disk0, saved, cache, gets, progress,
                   report>>

\* One round of the loop over the known scholars.
KnownScholar ==
    /\ pc = "known_scholars"
    /\ loc.i <= Len(known_scholars)
    /\ \E resp \in SearchAnswers(loc.i) :
         \E r \in {known_scholar(cache, loc.field_authors,
                                known_scholars[loc.i], resp)} :
            /\ loc' = [loc EXCEPT !.field_authors = r.authors,
                                  !.i = next_item(@, resp)]
            /\ cache' = r.cache
            /\ gets' = gets \o r.gets
            /\ call' = Met(cache, "author_search",
                           _get_author_cache_key(known_scholars[loc.i]),
                           r.gets, r.used, r.events, resp)
    /\ UNCHANGED <<history, qvars, params, pc, disk, disk0, saved, progress, report>>

\* The loop over the known scholars is over.
LeaveSearch ==
    /\ pc = "known_scholars"
    /\ loc.i > Len(known_scholars)
    /\ pc' = "client"
    /\ call' = NoCall
    /\ UNCHANGED <<history, qvars, params, loc, disk, disk0, saved, cache, gets,
                   progress, report>>

\* get_author_papers is called for an author.
GetAuthorPapers ==
    /\ pc = "client"
    /\ Len(gets) < MaxGets
    /\ \E a \in AuthorIds :
         \E resp \in ServiceAnswers(a) \cup {MalformedBody} :
           LET g == get_author_papers(cache, a, RequiredYears, resp)
           IN /\ papers' = g.papers
              /\ author' = Candidate(a)
              /\ cache' = g.cache
              /\ gets' = gets \o g.gets
              /\ call' = Met(cache, "author_papers",
                             _get_paper_cache_key(a, RequiredYears),
                             g.gets, g.papers, g.events, resp)
    /\ UNCHANGED <<history, verdict, params, pc, loc, disk, disk0, saved, progress,
                   report>>

NextClient ==
    \/ EnterSearch
    \/ KnownScholar
    \/ LeaveSearch
    \/ GetAuthorPapers

SpecClient == InitClient /\ [][NextClient]_vars

(***************************************************************************)
(* find_continuous_authors with the whole of search_field_authors          *)
(***************************************************************************)

\* The search queries of _get_search_queries that the model runs.
MaxQueries == 1
paper_search_queries == <<"machine learning", "system", "data">>

\* A paper of a search answer: its authors as dicts.
FoundPaper(as) == [authors |-> as]

\* What the service may answer to a paper search by keyword: a paper of two
\* known authors and a third one, a paper of a laboratory and an author
\* without id beside a paper without authors, a 429, or no answer.
PaperAnswers ==
    {Response200(<<FoundPaper(<<FoundAuthor("a1", "Andrew Ng"),
                                FoundAuthor("a3", "Fei-Fei Li"),
                                FoundAuthor("a2", "Yann LeCun")>>)>>),
     Response200(<<FoundPaper(<<FoundAuthor("l1", "Ng Lab"),
                                FoundAuthor("", "Fei-Fei Li")>>),
                   FoundPaper(<<>>)>>),
     ResponseStatus(429), RequestException}

\* What it may answer to the search for the highly cited papers of a year.
CitedAnswers ==
    {Response200(<<FoundPaper(<<FoundAuthor("a3", "Fei-Fei Li"),
                                FoundAuthor("a4", "Andrew Ng")>>)>>),
     Response200(<<FoundPaper(<<FoundAuthor("a2", "Yann LeCun")>>)>>),
     ResponseStatus(429)}

\* The cache directories earlier searches may have left: nothing, the entry
\* of the first scholar, the entries of both.
SearchCaches ==
    {EmptyFunction,
     _save_to_cache(EmptyFunction, "author_search",
                    _get_author_cache_key(known_scholars[1]),
                    List(<<SearchResult("a1", known_scholars[1])>>), TRUE),
     _save_to_cache(
        _save_to_cache(EmptyFunction, "author_search",
                       _get_author_cache_key(known_scholars[1]),
                       List(<<SearchResult("a1", known_scholars[1])>>), TRUE),
        "author_search", _get_author_cache_key(known_scholars[2]),
        List(<<SearchResult("a2", known_scholars[2])>>), TRUE)}

\* The values of limit: the one find_continuous_authors passes, and a small one.
SearchLimits == {2, 200}

\* find_continuous_authors(target_count) has entered search_field_authors.
InitSearch ==
    /\ author = FreshAuthor
    /\ papers = <<>>
    /\ verdict = Pending
    /\ params = NoParams
    /\ pc = "known_scholars"
    /\ \E l \in SearchLimits :
         loc = [NoLocals EXCEPT !.i = 1, !.limit = l, !.target_count = 1]
    /\ disk = EmptyFunction
    /\ disk0 = EmptyFunction
    /\ saved = SaveStart(EmptyFunction)
    /\ cache \in SearchCaches
    /\ gets = <<>>
    /\ call = NoCall
    /\ history = FirstRun
    /\ progress = NoProgress
    /\ report = NoReport

\* The loop over the known scholars is over: the search queries are next.
StartPaperSearch ==
    /\ pc = "known_scholars"
    /\ loc.i > Len(known_scholars)
    /\ pc' = "paper_search"
    /\ loc' = [loc EXCEPT !.i = 1]
    /\ call' = NoCall
    /\ UNCHANGED <<history, qvars, params, disk, disk0, saved, cache, gets,
                   progress, report>>

\* One round of the loop over paper_search_queries.
PaperSearch ==
    /\ pc = "paper_search"
    /\ loc.i <= MaxQueries
    /\ \E resp \in PaperAnswers :
         \E r \in {paper_search(loc.field_authors, paper_search_queries[loc.i],
                               2, resp)} :
            /\ loc' = [loc EXCEPT !.field_authors = r.authors,
                                  !.i = next_item(@, resp)]
            /\ gets' = gets \o r.gets
            /\ call' = Met(cache, "paper_search", paper_search_queries[loc.i],
                           r.gets, appended(loc.field_authors, r.authors),
                           r.events, resp)
    /\ UNCHANGED <<history, qvars, params, pc, disk, disk0, saved, cache,
                   progress, report>>

\* if len(authors) < limit: strategy 3 runs, else the list is returned.
StartCited ==
    /\ pc = "paper_search"
    /\ loc.i > MaxQueries
    /\ pc' = "cited_search"
    /\ loc' = [loc EXCEPT !.i = IF Len(loc.field_authors) < loc.limit THEN 1
                                ELSE Len(RequiredYears) + 1]
    /\ call' = NoCall
    /\ UNCHANGED <<history, qvars, params, disk, disk0, saved, cache, gets,
                   progress, report>>

\* One round of the loop over the years of strategy 3.
CitedSearch ==
    /\ pc = "cited_search"
    /\ loc.i <= Len(RequiredYears)
    /\ \E resp \in CitedAnswers :
         \E r \in {paper_search(loc.field_authors, str(RequiredYears[loc.i]),
                               1, resp)} :
            /\ loc' = [loc EXCEPT !.field_authors = r.authors,
                                  !.i = next_item(@, resp)]
            /\ gets' = gets \o r.gets
            /\ call' = Met(cache, "cited_search", str(RequiredYears[loc.i]),
                           r.gets, appended(loc.field_authors, r.authors),
                           r.events, resp)
    /\ UNCHANGED <<history, qvars, params, pc, disk, disk0, saved, cache,
                   progress, report>>

\* search_field_authors returns list(unique_authors.values()), and
\* find_continuous_authors starts its loop over the candidates.
ReturnUnique ==
    /\ pc = "cited_search"
    /\ loc.i > Len(RequiredYears)
    /\ pc' = "check"
    /\ loc' = [loc EXCEPT !.field_authors = unique_authors(@, <<>>), !.i = 1,
                          !.found = <<>>]
    /\ call' = NoCall
    /\ UNCHANGED <<history, qvars, params, disk, disk0, saved, cache, gets,
                   progress, report>>

NextSearch ==
    \/ KnownScholar
    \/ StartPaperSearch
    \/ PaperSearch
    \/ StartCited
    \/ CitedSearch
    \/ ReturnUnique
    \/ CheckNext
    \/ FindDone

SpecSearch == InitSearch /\ [][NextSearch]_vars

(***************************************************************************)
(* A whole normal run from the search on, every step of which returns      *)
(***************************************************************************)

\* run(target_authors=1) in normal mode without resume has called
\* find_continuous_authors, which has entered search_field_authors.
InitWholeRun ==
    /\ author = FreshAuthor
    /\ papers = <<>>
    /\ verdict = Pending
    /\ params = [target_authors |-> 1, resume |-> FALSE, debug_mode |-> FALSE,
                 fill_missing |-> FALSE, debug_authors |-> <<>>]
    /\ pc = "known_scholars"
    /\ \E l \in SearchLimits :
         loc = [NoLocals EXCEPT !.i = 1, !.limit = l, !.target_count = 1]
    /\ disk = EmptyFunction
    /\ disk0 = EmptyFunction
    /\ saved = SaveStart(EmptyFunction)
    /\ cache \in SearchCaches
    /\ gets = <<>>
    /\ call = NoCall
    /\ history = FirstRun
    /\ progress = NoProgress
    /\ report = NoReport

NextWholeRun ==
    \/ KnownScholar
    \/ StartPaperSearch
    \/ PaperSearch
    \/ StartCited
    \/ CitedSearch
    \/ ReturnUnique
    \/ CheckNext
    \/ FindDone
    \/ AfterFind
    \/ Collect
    \/ Save
    \/ Report

\* The program is sequential and every request and write returns: a step
\* that can be taken is taken.
SpecWholeRun ==
    InitWholeRun /\ [][NextWholeRun]_vars /\ WF_vars(NextWholeRun)

(***************************************************************************)
(* The filters of get_author_papers on every bounded fetched list          *)
(***************************************************************************)

\* Papers in a fetched list.
MaxFetched == 2

\* A fetched paper: in the field or not, in a top venue or not, with the
\* author in second place or not at all, of a required year (as a string) or
\* of the year before the first.
FetchedKinds ==
    {[title |-> t, venue |-> v, authors |-> as, year |-> y] :
        t \in Titles, v \in Venues,
        as \in {<<"a2", CandidateId>>, <<"a2">>},
        y \in {StrYear(str(FirstYear + 1)), IntYear(FirstYear - 1)}}

FetchedLists ==
    {[k \in DOMAIN l |->
        RawPaper(k, l[k].title, l[k].venue, l[k].authors, l[k].year, 0,
                 SomeAbstract)] :
        l \in UNION {[1..n -> FetchedKinds] : n \in 0..MaxFetched}}

InitFilters ==
    /\ author = FreshAuthor
    /\ verdict = Pending
    /\ params = NoParams
    /\ pc = "fetch"
    /\ loc = NoLocals
    /\ disk = EmptyFunction
    /\ disk0 = EmptyFunction
    /\ saved = SaveStart(EmptyFunction)
    /\ cache = EmptyFunction
    /\ gets = <<>>
    /\ call = NoCall
    /\ history = FirstRun
    /\ progress = NoProgress
    /\ report = NoReport
    /\ papers = <<>>

\* get_author_papers on an empty cache, the service answering 200 with a list.
FetchFresh ==
    /\ pc = "fetch"
    /\ \E data \in FetchedLists :
         LET g == get_author_papers(cache, author.authorId, RequiredYears,
                                    Response200(data))
         IN /\ papers' = g.papers
            /\ cache' = g.cache
            /\ gets' = gets \o g.gets
            /\ call' = Met(cache, "author_papers",
                           _get_paper_cache_key(author.authorId, RequiredYears),
                           g.gets, g.papers, g.events, Response200(data))
            /\ loc' = [loc EXCEPT !.stages = g.stages]
    /\ pc' = "filtered"
    /\ UNCHANGED <<author, verdict, params, disk, disk0, saved, history,
                   progress, report>>

NextFilters == FetchFresh

SpecFilters == InitFilters /\ [][NextFilters]_vars

(***************************************************************************)
(* is_real_author on the names a search may meet                           *)
(***************************************************************************)

\* Names in one answer.
MaxNames == 2

\* Names of 50 and of 51 characters.
LongName == "Maximiliana Konstantinopolskaya Alexandrovna Parks"
TooLongName == "Maximiliana Konstantinopolskaya Alexandrovna Parkss"

\* No name, blanks only, authors, a laboratory, a student, a mononym with
\* and without blanks around it, long names.
Names ==
    {"", " ", "Andrew Ng", "Yann LeCun", "Fei-Fei Li", "Ng Lab", "Student Ng",
     "Madonna", " Madonna ", LongName, TooLongName}

InitNames ==
    /\ author = FreshAuthor
    /\ papers = <<>>
    /\ verdict = Pending
    /\ params = NoParams
    /\ pc = "names"
    /\ loc = NoLocals
    /\ disk = EmptyFunction
    /\ disk0 = EmptyFunction
    /\ saved = SaveStart(EmptyFunction)
    /\ cache = EmptyFunction
    /\ gets = <<>>
    /\ call = NoCall
    /\ history = FirstRun
    /\ progress = NoProgress
    /\ report = NoReport

\* is_real_author(name) for the names of an answer, one after the other.
CheckNames ==
    /\ pc = "names"
    /\ \E names \in UNION {[1..n -> Names] : n \in 0..MaxNames} :
         loc' = [loc EXCEPT !.real =
                    [k \in DOMAIN names |->
                        [name |-> names[k], real |-> is_real_author(names[k])]]]
    /\ pc' = "named"
    /\ UNCHANGED <<qvars, params, disk, disk0, saved, cache, gets, call,
                   history, progress, report>>

NextNames == CheckNames

SpecNames == InitNames /\ [][NextNames]_vars

(***************************************************************************)
(* A run whose candidates have one paper per year, one without abstract    *)
(***************************************************************************)

\* target_authors of these runs.
MaxWanted == 2

\* What the service answers for candidate a: one paper for every required
\* year, all with an abstract or the paper of one year y without.
EmptyAbstractAnswers(a) ==
    {Response200(GoodPapers(a))}
        \cup {Response200(PapersOf(a, y, "abstract")) : y \in RequiredYearSet}

\* run(target_authors) in normal mode without resume or in incremental mode,
\* on a directory that holds complete and partial authors.
InitReject ==
    /\ author = FreshAuthor
    /\ papers = <<>>
    /\ verdict = Pending
    /\ pc = "start"
    /\ loc = NoLocals
    /\ disk \in InitialDirectories
    /\ disk0 = disk
    /\ saved = SaveStart(disk)
    /\ cache = EmptyFunction
    /\ gets = <<>>
    /\ history = FirstRun
    /\ call = NoCall
    /\ report = NoReport
    /\ progress = NoProgress
    /\ \E t \in 1..MaxWanted, fm \in BOOLEAN :
         params = [target_authors |-> t, resume |-> FALSE,
                   debug_mode |-> FALSE, fill_missing |-> fm,
                   debug_authors |-> <<>>]

\* The loop of find_continuous_authors takes up the next candidate; the
\* service answers with one paper per year.
CheckOnePerYear ==
    /\ pc = "check"
    /\ loc.i <= Len(loc.field_authors)
    /\ ~target_reached(loc.found, loc.target_count)
    /\ LET a == loc.field_authors[loc.i]
       IN \E resp \in EmptyAbstractAnswers(a.authorId) :
            CheckCandidate(a, resp, FALSE)
    /\ UNCHANGED <<history, params, disk, disk0, saved, report>>

NextReject ==
    \/ StartIncremental
    \/ StartNormal
    \/ Discover
    \/ CheckOnePerYear
    \/ FindDone
    \/ AfterFind
    \/ Collect
    \/ Save
    \/ Report

SpecReject == InitReject /\ [][NextReject]_vars

(***************************************************************************)
(* The cache store on its own: saves and loads of values                   *)
(***************************************************************************)

\* The longest list, tuple or dict that is saved.
MaxItems == 1

Numbers(n) == [i \in 1..n |-> i]
YearItems(n, key) == [i \in 1..n |-> <<key, i>>]

\* Values json.dump accepts: lists, tuples, dicts keyed by str or by int, None.
CacheValues ==
    {None}
    \cup {List(Numbers(n)) : n \in 0..MaxItems}
    \cup {Tuple(Numbers(n)) : n \in 0..MaxItems}
    \cup {Dict(YearItems(n, StrYear(str(FirstYear)))) : n \in 0..MaxItems}
    \cup {Dict(YearItems(n, IntYear(FirstYear))) : n \in 1..MaxItems}

\* The cache files the collector names: one per cache type.
CacheNames ==
    {<<"author_search", _get_author_cache_key(CandidateName)>>,
     <<"author_papers", _get_paper_cache_key(CandidateId, RequiredYears)>>}

InitCache ==
    /\ author = FreshAuthor
    /\ papers = <<>>
    /\ verdict = Pending
    /\ params = NoParams
    /\ pc = "cache"
    /\ loc = NoLocals
    /\ disk = EmptyFunction
    /\ disk0 = EmptyFunction
    /\ saved = SaveStart(EmptyFunction)
    /\ cache = EmptyFunction
    /\ gets = <<>>
    /\ history = FirstRun
    /\ call = [op |-> "none", name |-> <<"none", <<>>>>, existed |-> FALSE,
               value |-> None, opened |-> TRUE, returned |-> <<>>]
    /\ progress = NoProgress
    /\ report = NoReport

\* _save_to_cache(cache_type, identifier, data); open() may fail.
SaveToCache ==
    /\ pc = "cache"
    /\ \E n \in CacheNames, data \in CacheValues, opened \in BOOLEAN :
         /\ cache' = _save_to_cache(cache, n[1], n[2], data, opened)
         /\ call' = [op |-> "save", name |-> n,
                     existed |-> _get_cache_file(n[1], n[2]) \in DOMAIN cache,
                     value |-> data, opened |-> opened,
                     returned |-> _load_from_cache(cache, n[1], n[2])]
    /\ UNCHANGED <<history, qvars, params, pc, loc, disk, disk0, saved, gets, progress,
                   report>>

\* _load_from_cache(cache_type, identifier)
LoadFromCache ==
    /\ pc = "cache"
    /\ \E n \in CacheNames :
         call' = [op |-> "load", name |-> n,
                  existed |-> _get_cache_file(n[1], n[2]) \in DOMAIN cache,
                  value |-> None, opened |-> TRUE,
                  returned |-> _load_from_cache(cache, n[1], n[2])]
    /\ UNCHANGED <<history, qvars, params, pc, loc, disk, disk0, saved, cache, gets,
                   progress, report>>

NextCache ==
    \/ SaveToCache
    \/ LoadFromCache

SpecCache == InitCache /\ [][NextCache]_vars

(***************************************************************************)
(* Properties of the qualifier                                             *)
(***************************************************************************)

Returned == verdict.phase = "returned"

\* What the properties say about the fetched list, stated on the list itself.
OfYear(y) == {i \in DOMAIN papers : year_int(papers[i].year) = <<y>>}
HasAbstract(i) == papers[i].abstract # NoAbstract
Min(S) == CHOOSE i \in S : \A j \in S : i <= j

\* The first paper, in fetch order, with the highest citation count in S.
Best(S) ==
    CHOOSE i \in S : \A j \in S :
        \/ papers[i].citationCount > papers[j].citationCount
        \/ papers[i].citationCount = papers[j].citationCount /\ i <= j

\* The papers of year y that carry the year in the form (integer or string)
\* the year's first paper carries.
FirstForm(y) == {i \in OfYear(y) : papers[i].year = papers[Min(OfYear(y))].year}

\* A year fails when it has no paper, or the highest-cited paper of its
\* first form has no abstract.
Fails(y) == OfYear(y) = {} \/ ~HasAbstract(Best(FirstForm(y)))

C2_MaxCitationOfYear ==
    Returned =>
        \A k \in DOMAIN verdict.chosen :
            LET c == verdict.chosen[k]
            IN /\ c.paper = Best(OfYear(c.year))
               /\ ~HasAbstract(c.paper) =>
                    /\ ~verdict.ret
                    /\ k = Len(verdict.chosen)
                    /\ verdict.missing_years = <<<<c.year, "no_abstract">>>>

\* C3: a disqualification examined the years in increasing order up to the
\* smallest failing year, examined no later year, and names that year alone.
C3_HaltsAtFirstFailingYear ==
    Returned /\ ~verdict.ret =>
        LET n == Len(verdict.examined)
        IN /\ n >= 1
           /\ verdict.examined = SubSeq(RequiredYears, 1, n)
           /\ Fails(RequiredYears[n])
           /\ \A i \in 1..(n - 1) : ~Fails(RequiredYears[i])
           /\ Len(verdict.missing_years) = 1
           /\ verdict.missing_years[1][1] = RequiredYears[n]
           /\ verdict.missing_years[1][2] =
                (IF OfYear(RequiredYears[n]) = {} THEN "no_papers" ELSE "no_abstract")

\* C3 witness: the loop stopped before the last year, and a later year fails
\* too.
C3_Witness ==
    /\ Returned
    /\ ~verdict.ret
    /\ Len(verdict.examined) < Len(RequiredYears)
    /\ \E i \in (Len(verdict.examined) + 1)..Len(RequiredYears) : Fails(RequiredYears[i])

\* C4: on QUALIFIED the candidate carries one paper per required year, in
\* year order, each a fetched paper of that year with an abstract; on
\* DISQUALIFIED the call attached nothing to the candidate.
C4_ValidatedPapersShape ==
    Returned =>
        IF verdict.ret
        THEN /\ author.has_validated
             /\ Len(author.validated_papers) = Len(RequiredYears)
             /\ \A i \in DOMAIN author.validated_papers :
                  LET p == author.validated_papers[i]
                  IN /\ p.paperId \in OfYear(RequiredYears[i])
                     /\ p.abstract # NoAbstract
                     /\ p.abstract = papers[p.paperId].abstract
        ELSE /\ ~author.has_validated
             /\ author.validated_papers = <<>>

\* C4 witness: a qualified author for whom one year offered two papers.
C4_Witness ==
    /\ Returned
    /\ verdict.ret
    /\ author.has_validated
    /\ Len(papers) > Len(RequiredYears)

\* C5 as stated: the papers considered for a year are all the fetched papers
\* whose year, normalized to an integer, is that year, whether it arrived as
\* a string or as an integer.
C5_GroupedByNormalizedYear ==
    Returned =>
        \A k \in DOMAIN verdict.chosen :
            verdict.chosen[k].candidates = OfYear(verdict.chosen[k].year)

(***************************************************************************)
(* Properties of collection and persistence                                *)
(***************************************************************************)

Range(f) == {f[k] : k \in DOMAIN f}

\* The names of the files of author indices S, one per required year.
NamesOf(S) ==
    {FileName(str(y), format_02d(n)) : y \in RequiredYearSet, n \in S}

\* The indices that are complete in a directory.
CompleteIn(d) ==
    {n \in DOMAIN TwoDigits : NamesOf({n}) \subseteq DOMAIN d}

\* An author as the qualifier leaves a qualified one: one paper per required
\* year, in year order, each with an abstract.
IsQualified(a) ==
    /\ a.has_validated
    /\ Len(a.validated_papers) = Len(RequiredYears)
    /\ \A k \in DOMAIN a.validated_papers :
          /\ year_int(a.validated_papers[k].year) = <<RequiredYears[k]>>
          /\ a.validated_papers[k].abstract # NoAbstract

\* An exception left find_continuous_authors: the run ended before
\* collect_abstracts and save_abstracts_to_files.
FindRaised == pc = "raised" /\ loc.raised # "none"

\* save_abstracts_to_files has run in this run.
SaveRan == (pc \in {"report", "raised"} /\ ~FindRaised) \/ report.exists

\* C6: when the directory held exactly the complete authors 1..N, M authors
\* newly qualified and the target was N+M, an incremental run in which no
\* write failed has written exactly the files of indices N+1..N+M, each once,
\* and the files of 1..N are as they were.
C6_IncrementalAppends ==
    LET N == loc.existing_count
        M == Len(loc.continuous_authors)
    IN ( /\ params.fill_missing
         /\ SaveRan
         /\ DOMAIN disk0 = NamesOf(1..N)
         /\ \A k \in 1..M : IsQualified(loc.continuous_authors[k])
         /\ params.target_authors = N + M
         /\ saved.failed = <<>> )
       => /\ saved.raised = "none"
          /\ Range(saved.written) = NamesOf((N + 1)..(N + M))
          /\ Len(saved.written) = Cardinality(NamesOf((N + 1)..(N + M)))
          /\ DOMAIN disk = DOMAIN disk0 \cup NamesOf((N + 1)..(N + M))
          /\ \A f \in DOMAIN disk0 : disk[f] = disk0[f]

\* C6 witness: one complete author on disk, two new ones written.
C6_Witness ==
    /\ params.fill_missing
    /\ pc = "done"
    /\ report.exists
    /\ loc.existing_count = 1
    /\ DOMAIN disk0 = NamesOf({1})
    /\ Len(loc.continuous_authors) = 2
    /\ \A k \in 1..2 : IsQualified(loc.continuous_authors[k])
    /\ params.target_authors = 3
    /\ saved.failed = <<>>

\* C7 as stated: whatever the directory held, an incremental run writes only
\* files of indices above the highest complete index it found, and leaves
\* every file of a complete author as it was.
C7_NeverTouchesCompleteAuthors ==
    (params.fill_missing /\ SaveRan) =>
        /\ \A f \in Range(saved.written) :
              \A n \in CompleteIn(disk0) : index_int(last_stem(f))[1] > n
        /\ \A f \in NamesOf(CompleteIn(disk0)) :
              f \in DOMAIN disk /\ disk[f] = disk0[f]

\* The index collect_abstracts owes the k-th author: the number of complete
\* authors on disk plus the number of authors up to k that carry validated
\* papers.
OwedIndex(authors, k) ==
    _count_existing_successful_authors(disk)
    + Cardinality({j \in 1..k : authors[j].has_validated})

RECURSIVE Flatten(_, _)
Flatten(authors, k) ==
    IF k > Len(authors) THEN <<>>
    ELSE authors[k].validated_papers \o Flatten(authors, k + 1)

\* C8: after collect_abstracts every paper of the k-th author that carries
\* validated papers is tagged with the index that author is owed, the tagged
\* papers are those papers in author order, and no two authors share an index.
C8_IndexPerValidatedAuthor ==
    pc = "save" =>
        LET authors == loc.continuous_authors
        IN /\ \A k \in DOMAIN authors :
                \A j \in DOMAIN authors[k].validated_papers :
                    authors[k].validated_papers[j].author_index
                        = OwedIndex(authors, k)
           /\ loc.all_papers = Flatten(authors, 1)
           /\ \A k1 \in DOMAIN authors, k2 \in DOMAIN authors :
                ( /\ k1 # k2
                  /\ authors[k1].validated_papers # <<>>
                  /\ authors[k2].validated_papers # <<>> )
                => authors[k1].validated_papers[1].author_index
                     # authors[k2].validated_papers[1].author_index

\* C8 witness: an author without validated papers came before one with them,
\* and the directory already held a complete author.
C8_Witness ==
    /\ pc = "save"
    /\ Len(loc.continuous_authors) = 2
    /\ ~loc.continuous_authors[1].has_validated
    /\ loc.continuous_authors[2].has_validated
    /\ _count_existing_successful_authors(disk) = 1
    /\ loc.all_papers # <<>>

\* The file a tagged paper is to be written to.
FileFor(paper) == FileName(year_str(paper.year), format_02d(paper.author_index))

\* C9 as stated: save_abstracts_to_files raises nothing, skips exactly the
\* papers that lack an abstract, a year or an index, wherever they stand, and
\* writes one file for each other paper whose write did not fail.
C9_SkipsIncompletePapers ==
    SaveRan =>
        LET ps == loc.all_papers
            complete == {k \in DOMAIN ps : ~incomplete(ps[k])}
        IN /\ saved.raised = "none"
           /\ Range(saved.skipped) = DOMAIN ps \ complete
           /\ Range(saved.written) \cup Range(saved.failed)
                = {FileFor(ps[k]) : k \in complete}

(***************************************************************************)
(* Properties of the cache                                                 *)
(***************************************************************************)

\* C10 as stated: a call that found a cache file for its key, whatever the
\* file held, issued no GET and worked with what the file held.
C10_CacheEntryAlwaysServed ==
    call.existed => (~call.fetched /\ call.returned = call.payload)

\* The cache file of the last call is not as the call met it.
EntryChanged ==
    \/ (call.file \in DOMAIN cache) # call.existed
    \/ /\ call.existed
       /\ items(json_load(cache[call.file])) # call.payload

\* C11 as stated: a call creates or changes the cache entry of its key only
\* if it issued a GET that was answered with 200 and gave a non-empty
\* result; an empty result and a failed call leave the entry as it was.
C11_OnlyNonEmptyResultsCached ==
    EntryChanged => (call.fetched /\ call.returned # <<>>)

\* What a load of the name of the last call gives now.
LoadsNow == _load_from_cache(cache, call.name[1], call.name[2])

\* A value that JSON reads back as it was written: a list, None, or a dict
\* whose keys are all strings.
ReadsBackEqual(v) ==
    \/ v[1] \in {"list", "None"}
    \/ v[1] = "dict" /\ \A i \in DOMAIN v[2] : v[2][i][1][1] = "str"

C13_SnapshotHoldsAllQualified ==
    (~params.debug_mode /\ loc.found # <<>>) =>
        /\ progress.exists
        /\ progress.authors = loc.loaded \o loc.found

\* C14 as stated: when a run on the directory completes, every author that
\* was in the progress snapshot when an earlier run crashed is among the
\* authors the completed run collects and saves.
C14_SnapshottedAuthorsSurviveCrashes ==
    pc = "done" =>
        history.snapshotted \subseteq author_ids(loc.continuous_authors)

IdSeq(authors) == [k \in DOMAIN authors |-> authors[k].authorId]

\* search_field_authors has been called in this run.
Discovered == loc.i > 0

\* run() is past collect_abstracts, so its author list is settled.
ListSettled ==
    (pc \in {"collect", "save", "report", "raised"} /\ ~FindRaised) \/ SaveRan

\* The run is a normal one that loaded a progress snapshot.
ResumedFromSnapshot ==
    /\ ~params.fill_missing
    /\ params.resume
    /\ ~params.debug_mode
    /\ pc # "start"
    /\ loc.loaded # <<>>

FilesFor(authors) ==
    UNION {{FileFor(authors[k].validated_papers[j]) :
                j \in DOMAIN authors[k].validated_papers} : k \in DOMAIN authors}

\* C16: in an incremental run that found E complete authors, if E >= target
\* the run ends without discovery, without an author and without writing a
\* file or a report; otherwise at most target - E authors are found and
\* every file written is the file of a paper of one of them.
C16_IncrementalFillsShortfall ==
    (params.fill_missing /\ pc # "start") =>
        LET E == loc.existing_count
        IN IF E >= params.target_authors
           THEN /\ pc = "done"
                /\ ~Discovered
                /\ loc.found = <<>>
                /\ gets = <<>>
                /\ disk = disk0
                /\ saved.written = <<>>
                /\ ~report.exists
           ELSE /\ Len(loc.found) <= params.target_authors - E
                /\ (ListSettled \/ pc = "done")
                     => IdSeq(loc.continuous_authors) = IdSeq(loc.found)
                /\ SaveRan =>
                     /\ Range(saved.written) \subseteq
                            FilesFor(loc.continuous_authors)
                     /\ \A f \in DOMAIN disk \ Range(saved.written) :
                            f \in DOMAIN disk0 /\ disk[f] = disk0[f]

\* C16 witness: one complete author on disk, target three, two authors found
\* and their ten files written.
C16_Witness ==
    /\ params.fill_missing
    /\ ~params.debug_mode
    /\ pc = "done"
    /\ report.exists
    /\ loc.existing_count = 1
    /\ params.target_authors = 3
    /\ Len(loc.found) = 2
    /\ Len(saved.written) = 2 * RequiredCount

\* The candidates find_continuous_authors has checked so far.
Checked == SubSeq(loc.field_authors, 1, loc.i - 1)

\* The candidate's papers, as the service answered with 200, qualify; an
\* answer other than 200 left no cache file and no papers.
Qualifies(a) ==
    LET loaded == _load_from_cache(cache, "author_papers",
                      _get_paper_cache_key(a.authorId, RequiredYears))
    IN /\ loaded # <<>>
       /\ check_author_continuity_with_abstracts(a, items(loaded[1])).ret

\* C17: find_continuous_authors fetched the papers of the checked candidates
\* in candidate order, one GET each; the authors found are the checked
\* candidates that qualify, in that order, at most target_count of them; and
\* the target was not yet reached when any checked candidate was taken up.
C17_StopsAtTarget ==
    (~params.debug_mode /\ Discovered) =>
        /\ Len(loc.found) <= loc.target_count
        /\ IdSeq(loc.found) = IdSeq(SelectSeq(Checked, Qualifies))
        /\ [k \in DOMAIN gets |-> gets[k].key[1]] = IdSeq(Checked)
        /\ \A j \in DOMAIN Checked :
              Len(SelectSeq(SubSeq(Checked, 1, j - 1), Qualifies))
                  < loc.target_count
        /\ (pc # "check" /\ ~FindRaised) =>
              \/ loc.i > Len(loc.field_authors)
              \/ Len(loc.found) = loc.target_count

\* C17 witness: the first candidate qualified, the target of one was reached
\* and the second candidate was never fetched.
C17_Witness ==
    /\ ~params.debug_mode
    /\ pc = "found"
    /\ loc.target_count = 1
    /\ Len(loc.field_authors) = 2
    /\ Len(loc.found) = 1
    /\ loc.i = 2
    /\ Len(gets) = 1

(***************************************************************************)
(* Properties of the directory scans                                       *)
(***************************************************************************)

\* C18: the count is the number of indices that have the file of every
\* required year, whatever else the directory holds.
C18_CountsCompleteIndices ==
    pc = "counted" => loc.existing_count = Cardinality(CompleteIn(disk))

\* C18 witness: one index complete, another partial, a foreign file present.
C18_Witness ==
    /\ pc = "counted"
    /\ loc.existing_count = 1
    /\ FilesOf(1, "partial") \subseteq DOMAIN disk
    /\ ~(FilesOf(1, "complete") \subseteq DOMAIN disk)
    /\ FilesOf(2, "complete") \subseteq DOMAIN disk
    /\ DOMAIN disk \cap ForeignNames # {}

\* A name of the pattern Academic_{FIELD}_{year}_{index}.txt: four parts, a
\* year that is a number, an index of two digits.
FollowsPattern(f) ==
    /\ is_abstract_file(f)
    /\ Len(f.parts) = 4
    /\ int(f.parts[3]) # <<>>
    /\ \E n \in DOMAIN TwoDigits : TwoDigits[n] = f.parts[4]

PatternFiles == {f \in DOMAIN disk : FollowsPattern(f)}

\* C19 as stated: a report counts exactly the files that follow the pattern,
\* each under its year, and the count of complete authors is what it would
\* be without the other files.
C19_OnlyPatternFilesCounted ==
    /\ pc = "reported" =>
         /\ report.actual_total_files = Cardinality(PatternFiles)
         /\ report.actual_year_counts =
              [ys \in {f.parts[3] : f \in PatternFiles} |->
                  Cardinality({f \in PatternFiles : f.parts[3] = ys})]
    /\ pc = "counted" =>
         loc.existing_count =
            _count_existing_successful_authors([f \in PatternFiles |-> disk[f]])

\* C20: a report leaves the abstract files, progress.json and the cache as
\* they are, and a report written after another on the same directory gives
\* the same year counts and the same file total.
C20_ReportIdempotentReadOnly ==
    [][(pc' = "reported" /\ loc'.i = loc.i + 1) =>
          /\ disk' = disk
          /\ progress' = progress
          /\ cache' = cache
          /\ report.exists =>
                /\ report'.actual_year_counts = report.actual_year_counts
                /\ report'.actual_total_files = report.actual_total_files]_vars

\* C20 witness: a second report was written on a directory that holds
\* abstract files.
C20_Witness ==
    /\ pc = "reported"
    /\ loc.i = 2
    /\ report.exists
    /\ report.actual_total_files >= RequiredCount

(***************************************************************************)
(* Properties of the report a run leaves                                   *)
(***************************************************************************)

\* C21 as stated: a run that has returned, whatever its mode and outcome,
\* has written the report from the directory as it is at the return.
C21_EveryReturnedRunWroteReport ==
    pc = "done" =>
       /\ report.exists
       /\ report.actual_total_files = Cardinality(saved_files(DOMAIN disk))
       /\ report.actual_year_counts = year_counts(DOMAIN disk)

\* C22 as stated: the incremental report says that all authors are complete
\* exactly when the files on disk number the required years times the
\* complete authors.
C22_CompleteLineMatchesFileCount ==
    (pc = "reported" /\ report.mode = "incremental") =>
       (report.all_complete <=>
           report.actual_total_files = RequiredCount * report.complete_authors)

(***************************************************************************)
(* Properties of the failures a run meets                                  *)
(***************************************************************************)

\* C23 as stated: no run is ended by the failure of a write, be it of a
\* cache file, of an abstract file or of progress.json.
C23_WriteFailureNeverEndsRun ==
    ~(pc = "raised" /\ loc.raised = "OSError")

\* C24 as stated: whatever fields the papers of a payload lack, the fetch and
\* the qualifier return; no exception leaves them.
C24_MissingFieldsNeverRaise ==
    pc # "payload" => verdict.raised = "none"

(***************************************************************************)
(* Properties of the client's requests and of the candidate list           *)
(***************************************************************************)

Ok200(resp) == resp.kind = "response" /\ resp.status_code = 200

\* C25: a call that misses the cache issues one GET and no second one; a
\* 429, another status, a body that is no JSON and an exception yield
\* nothing, a 200 without data yields nothing, and the caller goes on: no
\* failed request ends the run.
C25_OneGetAndEmptyOnFailure ==
    [][/\ Len(gets') <= Len(gets) + 1
       /\ Len(gets') = Len(gets) + 1 => (call'.fetched /\ call'.issued = 1)
       /\ call'.fetched =>
            /\ call'.issued = 1
            /\ ~Ok200(call'.resp) => (call'.returned = <<>> /\ pc' # "raised")
            /\ call'.resp.data = <<>> => call'.returned = <<>>]_vars

\* C25 witness: get_author_papers met an exception for the first candidate
\* and the loop is at the second.
C25_Witness ==
    /\ pc = "check"
    /\ loc.i = 2
    /\ Len(loc.field_authors) >= 2
    /\ call.fetched
    /\ call.resp = RequestException
    /\ call.returned = <<>>

\* C26: in what a call does, every GET comes right after a rate-limit delay,
\* there are as many GETs as the call issued, and a call served from the
\* cache takes no delay.
C26_DelayBeforeEveryGet ==
    /\ \A i \in DOMAIN call.events :
          call.events[i] = "get" =>
             (i > 1 /\ call.events[i - 1] = "rate_limit_delay")
    /\ Cardinality({i \in DOMAIN call.events : call.events[i] = "get"})
          = call.issued
    /\ ~call.fetched => call.events = <<>>

\* C26 witness: a request of strategy 3 that was answered 429, after requests
\* of the other strategies.
C26_Witness ==
    /\ pc = "cited_search"
    /\ Len(gets) >= 3
    /\ call.events = <<"rate_limit_delay", "get", "sleep">>

\* The entries a round of the search looks at: the cached list or the data of
\* a known scholar's search, the first two authors of each paper of a
\* keyword search, the first author of each paper of strategy 3.
RECURSIVE FirstAuthors(_, _)
FirstAuthors(found_papers, n) ==
    IF found_papers = <<>> THEN <<>>
    ELSE first_n(Head(found_papers).authors, n)
            \o FirstAuthors(Tail(found_papers), n)

LookedAt(c) ==
    IF c.file[1] = "author_search"
    THEN IF c.fetched THEN (IF Ok200(c.resp) THEN c.resp.data ELSE <<>>)
         ELSE c.payload
    ELSE IF ~Ok200(c.resp) THEN <<>>
    ELSE FirstAuthors(c.resp.data, IF c.file[1] = "paper_search" THEN 2 ELSE 1)

\* The positions of the entries that are candidates: identified and real.
CandidateAt(entries) ==
    {k \in DOMAIN entries :
        entries[k].authorId # "" /\ is_real_author(entries[k].name)}

FirstAt(entries, id) ==
    CHOOSE k \in CandidateAt(entries) :
        /\ entries[k].authorId = id
        /\ \A j \in CandidateAt(entries) : entries[j].authorId = id => k <= j

\* C27: every round of the three strategies keeps the list and appends the
\* candidates it meets for the first time, in the order it meets them; the
\* list returned holds the same ids in the same order, each once, none empty.
C27_UniqueInFirstSeenOrder ==
    [][/\ (pc \in {"known_scholars", "paper_search", "cited_search"}
            /\ pc' = pc) =>
            LET old == IdSeq(loc.field_authors)
                new == IdSeq(loc'.field_authors)
                added == SubSeq(new, Len(old) + 1, Len(new))
                entries == LookedAt(call')
            IN /\ Len(new) >= Len(old)
               /\ SubSeq(new, 1, Len(old)) = old
               /\ Range(added) =
                     {entries[k].authorId : k \in CandidateAt(entries)}
                        \ Range(old)
               /\ \A i, j \in DOMAIN added :
                     i < j => FirstAt(entries, added[i]) < FirstAt(entries, added[j])
       /\ (pc = "cited_search" /\ pc' = "check") =>
            /\ IdSeq(loc'.field_authors) = IdSeq(loc.field_authors)
            /\ \A i, j \in DOMAIN loc'.field_authors :
                  loc'.field_authors[i].authorId = loc'.field_authors[j].authorId
                     => i = j
            /\ \A i \in DOMAIN loc'.field_authors :
                  loc'.field_authors[i].authorId # ""]_vars

\* C27 witness: the list returned holds three candidates, the first from the
\* cache, another from a paper search.
C27_Witness ==
    /\ pc = "check"
    /\ loc.i = 1
    /\ IdSeq(loc.field_authors) = <<"a1", "a2", "a3">>
    /\ Len(gets) < Len(known_scholars) + MaxQueries + Len(RequiredYears)

(***************************************************************************)
(* Properties of the filters                                               *)
(***************************************************************************)

\* The four predicates, by number: the year is a required year, the paper is
\* of the field, its venue is a top venue, the author is among its authors.
Passes(k, paper) ==
    CASE k = 1 -> \E n \in RequiredYearSet :
                     paper.year \in {IntYear(n), StrYear(str(n))}
      [] k = 2 -> is_field_paper(paper)
      [] k = 3 -> is_top_conference_paper(paper)
      [] k = 4 -> CandidateId \in Range(paper.authors)

RECURSIVE FilteredIn(_, _)
FilteredIn(order, data) ==
    IF order = <<>> THEN data
    ELSE FilteredIn(Tail(order),
                    SelectSeq(data, LAMBDA paper : Passes(Head(order), paper)))

Orders == {o \in [1..4 -> 1..4] : \A i, j \in 1..4 : o[i] = o[j] => i = j}

\* C28: a fresh fetch returns the fetched papers that pass all four
\* predicates, in the order fetched; every filter's list is within the one
\* before it; the filters in any other order give the same list.
C28_FiltersIntersect ==
    pc = "filtered" =>
       /\ papers = SelectSeq(call.resp.data,
                             LAMBDA paper : \A k \in 1..4 : Passes(k, paper))
       /\ Range(loc.stages[1]) \subseteq Range(call.resp.data)
       /\ \A k \in 2..4 : Range(loc.stages[k]) \subseteq Range(loc.stages[k - 1])
       /\ loc.stages[4] = papers
       /\ \A o \in Orders : FilteredIn(o, call.resp.data) = papers

\* C28 witness: of two fetched papers the second alone passes; the first
\* names the author but is of no top venue.
C28_Witness ==
    /\ pc = "filtered"
    /\ Len(call.resp.data) = 2
    /\ CandidateId \in Range(call.resp.data[1].authors)
    /\ ~is_top_conference_paper(call.resp.data[1])
    /\ papers = <<call.resp.data[2]>>
    /\ Len(loc.stages[1]) = 2

(***************************************************************************)
(* Properties of is_real_author                                            *)
(***************************************************************************)

\* The tokens of a name: the places where a run of non-blank characters ends.
TokenCount(cs) ==
    Cardinality({i \in DOMAIN cs :
                    cs[i] # " " /\ (i = Len(cs) \/ cs[i + 1] = " ")})

\* The four reasons for which a name is no author's.
Rejected(name) ==
    \/ name = ""
    \/ \E kw \in institution_keywords :
          \E i \in 0..(Len(chars(name)) - Len(chars(kw))) :
             lower(SubSeq(chars(name), i + 1, i + Len(chars(kw)))) = chars(kw)
    \/ TokenCount(chars(name)) < 2
    \/ Len(chars(name)) > 50

\* C29: is_real_author is False for a name that is empty, holds an
\* institution keyword in any case, has fewer than two tokens or more than 50
\* characters, and True for every other name.
C29_RealAuthorNames ==
    pc = "named" =>
       \A k \in DOMAIN loc.real : loc.real[k].real = ~Rejected(loc.real[k].name)

\* C29 witness: a name of 50 characters was taken and one of 51 was not.
C29_Witness ==
    /\ pc = "named"
    /\ loc.real = <<[name |-> LongName, real |-> TRUE],
                    [name |-> TooLongName, real |-> FALSE]>>

(***************************************************************************)
(* End to end                                                              *)
(***************************************************************************)

\* The run started on a directory without files, found its one author itself
\* (no debug file, no progress file) and saved with no write failing.
OneAuthorFromScratch ==
    /\ pc = "done"
    /\ report.exists
    /\ disk0 = EmptyFunction
    /\ ~params.debug_mode
    /\ loc.loaded = <<>>
    /\ Len(loc.continuous_authors) = 1
    /\ saved.failed = <<>>

\* C30: for such a run the author's papers are the five the client returned,
\* one per required year in year order, each with its abstract, and the
\* directory holds the files Academic_CS_2020_01.txt .. Academic_CS_2024_01.txt
\* with those papers and no other file.
C30_EndToEndFiveFiles ==
    OneAuthorFromScratch =>
       LET a == loc.continuous_authors[1]
           fetched == items(json_load(cache[_get_cache_file("author_papers",
                         _get_paper_cache_key(a.authorId, RequiredYears))]))
       IN /\ Len(fetched) = RequiredCount
          /\ Len(a.validated_papers) = RequiredCount
          /\ \A k \in DOMAIN RequiredYears :
                /\ a.validated_papers[k].paperId = fetched[k].paperId
                /\ a.validated_papers[k].year = IntYear(RequiredYears[k])
                /\ a.validated_papers[k].abstract = fetched[k].abstract
                /\ a.validated_papers[k].abstract # NoAbstract
          /\ DOMAIN disk =
                {Name(<<"Academic", "CS", str(y), "01">>, "txt") :
                    y \in RequiredYearSet}
          /\ \A k \in DOMAIN RequiredYears :
                LET file == disk[Name(<<"Academic", "CS", str(RequiredYears[k]),
                                        "01">>, "txt")]
                IN /\ file.paperId = fetched[k].paperId
                   /\ file.abstract = fetched[k].abstract
                   /\ file.author_name = a.name

\* C30 witness: such a run in normal mode, after a candidate that failed.
C30_Witness ==
    /\ OneAuthorFromScratch
    /\ ~params.fill_missing
    /\ Len(loc.field_authors) = 2
    /\ loc.continuous_authors[1].authorId = loc.field_authors[2].authorId
    /\ Cardinality(DOMAIN disk) = RequiredCount

\* The years of which a fetched list holds a paper without abstract.
EmptyYears(ps) ==
    {y \in RequiredYearSet :
        \E k \in DOMAIN ps : /\ year_int(ps[k].year) = <<y>>
                             /\ ps[k].abstract = NoAbstract}

\* The papers the service answered with for candidate a, as the cache keeps
\* them.
FetchedFor(a) ==
    items(_load_from_cache(cache, "author_papers",
              _get_paper_cache_key(a.authorId, RequiredYears))[1])

\* The service answered for a with one paper per required year, the one of
\* year y without abstract.
OneEmptyAbstract(a, y) ==
    /\ Len(FetchedFor(a)) = Len(RequiredYears)
    /\ \A k \in DOMAIN RequiredYears :
          year_int(FetchedFor(a)[k].year) = <<RequiredYears[k]>>
    /\ EmptyYears(FetchedFor(a)) = {y}

\* The files the run wrote or changed.
TouchedFiles ==
    {f \in DOMAIN disk : f \notin DOMAIN disk0 \/ disk[f] # disk0[f]}

\* C31: a checked candidate with one paper per required year, the one of
\* year y without abstract, is refused with year y named as lacking an
\* abstract, is in no author list of the run and not in the progress
\* snapshot, and no file the run writes is a file of this candidate.
C31_EmptyAbstractNeverPersisted ==
    Discovered =>
        \A j \in DOMAIN Checked : \A y \in RequiredYearSet :
            OneEmptyAbstract(Checked[j], y) =>
                /\ Checked[j].authorId \notin author_ids(loc.found)
                /\ Checked[j].authorId \notin author_ids(loc.continuous_authors)
                /\ Checked[j].authorId \notin author_ids(progress.authors)
                /\ \A f \in TouchedFiles \cup Range(saved.written) :
                      disk[f].author_name # Checked[j].name
                /\ \A k \in DOMAIN loc.all_papers :
                      loc.all_papers[k].author_name # Checked[j].name
                /\ j = loc.i - 1 =>
                      /\ verdict.phase = "returned"
                      /\ ~verdict.ret
                      /\ verdict.missing_years = <<<<y, "no_abstract">>>>
                      /\ ~author.has_validated

\* C31 witness: the first candidate's 2024 paper had no abstract, the second
\* candidate qualified, and the run ended having written the five files of
\* the second one only.
C31_Witness ==
    /\ pc = "done"
    /\ report.exists
    /\ Len(loc.field_authors) = 2
    /\ loc.i = 3
    /\ OneEmptyAbstract(loc.field_authors[1], LastYear)
    /\ IdSeq(loc.found) = <<loc.field_authors[2].authorId>>
    /\ Len(saved.written) = RequiredCount

\* search_field_authors(limit) has returned its list.
SearchReturned == loc.limit > 0 /\ pc \in {"check", "found", "raised"}

\* The years whose highly cited papers strategy 3 asked for.
CitedYearsAsked ==
    {y \in RequiredYearSet :
        \E k \in DOMAIN gets : /\ gets[k].url = "paper/search"
                               /\ gets[k].key = str(y)}

\* C32 as stated: every call of search_field_authors runs strategy 3, however
\* many candidates the known scholars and the keyword searches produced: the
\* search of every year was asked before the list is returned.
C32_CitedSearchOnEveryCall ==
    SearchReturned => CitedYearsAsked = RequiredYearSet

\* No author id stands at two places of a list of authors.
DistinctIds(authors) ==
    \A j, k \in DOMAIN authors :
        authors[j].authorId = authors[k].authorId => j = k

\* C33 as stated: the list a normal run hands to collect_abstracts holds no
\* author id twice, also when the run resumed from a snapshot shorter than
\* the target.
C33_NoAuthorTwiceInList ==
    (~params.fill_missing /\ pc = "collect") =>
        DistinctIds(loc.continuous_authors)

\* The author indices under which directory d holds abstracts of the author
\* called name.
IndicesOf(name, d) ==
    {d[f].author_index : f \in {g \in DOMAIN d : d[g].author_name = name}}

\* Directory d holds a file for every validated paper of author a.
StoredIn(a, d) ==
    \A k \in DOMAIN a.validated_papers :
        \E f \in DOMAIN d :
            /\ d[f].author_name = a.name
            /\ d[f].paperId = a.validated_papers[k].paperId
            /\ d[f].year = a.validated_papers[k].year

\* The run loaded a snapshot that meets the target, and the files of its
\* authors were on disk when the run started.
SnapshotMetAndStored ==
    /\ loc.loaded # <<>>
    /\ Len(loc.loaded) >= params.target_authors
    /\ \A k \in DOMAIN loc.loaded : StoredIn(loc.loaded[k], disk0)

\* C34 as stated: after completed runs on one directory the abstracts of an
\* author are stored under one author index only, and a normal run whose
\* snapshot meets the target and whose authors' files are on disk leaves the
\* set of abstract files as it was.
C34_OneIndexPerAuthor ==
    pc = "done" =>
        /\ \A f \in DOMAIN disk :
              Cardinality(IndicesOf(disk[f].author_name, disk)) = 1
        /\ SnapshotMetAndStored => DOMAIN disk = DOMAIN disk0

\* The tagged papers save_abstracts_to_files does not skip.
Writable == {k \in DOMAIN loc.all_papers : ~incomplete(loc.all_papers[k])}

\* The author indices of which the pass wrote the file of every required year.
PersistedIndices ==
    {n \in {loc.all_papers[k].author_index : k \in Writable} :
        NamesOf({n}) \subseteq Range(saved.written)}

\* The save ran to its end and no write failed.
SavedWithoutFailure ==
    SaveRan /\ saved.raised = "none" /\ saved.failed = <<>>

\* C35 as stated: no two tagged papers of a pass have the same file name, no
\* file is written twice, and after a pass without I/O failure the directory
\* holds as many complete authors as before plus the authors persisted.
C35_OneFilePerPaperAndCountGrows ==
    SaveRan =>
        /\ \A j, k \in Writable :
              FileFor(loc.all_papers[j]) = FileFor(loc.all_papers[k]) => j = k
        /\ \A j, k \in DOMAIN saved.written :
              saved.written[j] = saved.written[k] => j = k
        /\ SavedWithoutFailure =>
              _count_existing_successful_authors(disk)
                  = _count_existing_successful_authors(disk0)
                        + Cardinality(PersistedIndices)

\* The candidates search_field_authors returned, once it has.
DiscoveredCandidates ==
    IF pc \in {"known_scholars", "paper_search", "cited_search"} THEN 0
    ELSE Len(loc.field_authors)

\* The requests of the run so far are at most one per known scholar, search
\* query, year and discovered candidate, and no item was asked for twice.
RequestsBounded ==
    /\ Len(gets) <= Len(known_scholars) + MaxQueries + Len(RequiredYears)
                        + DiscoveredCandidates
    /\ \A j, k \in DOMAIN gets :
          (gets[j].url = gets[k].url /\ gets[j].key = gets[k].key) => j = k

\* run() has returned or an exception has left it.
RunEnded == pc \in {"done", "raised"}

====
